---- MODULE Spec2Model ----
(***************************************************************************)
(* Model of the streaming-text renderer of the agricultural platform       *)
(* frontend:                                                               *)
(*   - the reveal engine, frontend/src/hooks/useTypewriter.ts              *)
(*   - stream ingestion, frontend/src/services/api.ts (searchStream)       *)
(*                                                                         *)
(* Strings are sequences of one-character strings.                         *)
(*                                                                         *)
(* React semantics used for the hook: a state or prop change re-renders    *)
(* the component; when one of the effect's dependencies (text,             *)
(* displayText, currentIndex; safeSpeed and onComplete are stable) has     *)
(* changed, the cleanup returned by the previous run of the effect runs    *)
(* first and then the effect body runs again.  The event loop is single    *)
(* threaded and an interval is at least 1 ms, so a handler together with   *)
(* the re-render and the effect runs it causes is one step.                *)
(***************************************************************************)
EXTENDS Integers, Sequences, FiniteSets, TLC

VARIABLES
    \* ---- useTypewriter ----
    text,           \* the text prop (the target)
    displayText,    \* useState('')
    currentIndex,   \* useState(0)
    isTyping,       \* useState(false)
    intervalRef,    \* useRef: id of the tracked interval, 0 for null
    timers,         \* live intervals: set of [id, text], text = the closure's text
    cleanup,        \* TRUE iff the last run of the effect returned its cleanup function
    completions,    \* number of onComplete() calls made by the hook
    \* ---- history of the hook (observation only) ----
    lastOp,         \* "mount", "advance", "tick", "skip" or "unmount"
    pre,            \* hook state before the last operation
    starts,         \* setInterval calls made during the last operation
    nAdv,           \* number of advance calls so far, saturating at 2
    skipped,        \* TRUE iff skipTyping has been called
    ticks,          \* interval callbacks that revealed a character since the text last changed
    prevText,       \* the text before it last changed
    mounted,        \* TRUE until the component unmounts
    \* ---- searchStream ----
    stream,         \* the whole response body the transport will deliver
    pos,            \* number of characters already handed out by reader.read()
    buffer,         \* let buffer = ''
    pc,             \* "idle", "fetch", "read", "done" (completed), "failed", "aborted"
    messages,       \* arguments of the onMessage calls, in call order
    nComplete,      \* number of onComplete() calls
    nError,         \* number of onError() calls
    sawComplete,    \* TRUE iff a message with status "complete" has been decoded
    lateMessages,   \* onMessage calls made after onComplete was called
    midLine,        \* TRUE iff some chunk ended in the middle of a line
    aborted,        \* TRUE iff abortController.abort() has been called
    failure,        \* the non-abort failure met: "none", "reject", "status", "nobody", "read"
    nDecodeFail,    \* data lines whose JSON.parse threw
    \* ---- parseContentSections ----
    parseText,      \* the text argument
    displayFormat,  \* the displayFormat prop: "table" or "neo4j_graph"
    textLines,      \* const lines = text.split('\n')
    lineNo,         \* number of lines the loop has consumed
    sections,       \* const sections = []
    currentSection, \* let currentSection: [type, content], content a list of lines
    inTable,        \* let inTable = false
    parsePc,        \* "idle", "call", "loop" or "returned"
    lastBranch,     \* the branch the last line took (observation only)
    \* ---- formatAsTable, formatAsGraphTable ----
    tableData,      \* the data argument: [kind, rows]
    display_format, \* the display_format argument
    result,         \* what the call gave: [threw, out]
    formatPc,       \* "idle", "call", "table" (formatAsTable returned) or "graph"
    \* ---- StreamingText: one render ----
    renderText,     \* the text given to formatText
    rawData,        \* the rawData prop: null or an array of nodes
    renderFormat,   \* the displayFormat prop of this render
    speed,          \* the speed option: [given, ms]
    safeSpeed,      \* the interval the hook computes from speed, 0 before the call
    view,           \* what formatText returned: [kind, parsed, threw, elements]
    renderPc        \* "idle", "props", "hook" (useTypewriter called) or "rendered"

hookVars == <<text, displayText, currentIndex, isTyping, intervalRef, timers,
              cleanup, completions, lastOp, pre, starts, nAdv, skipped, ticks,
              prevText, mounted>>
streamVars == <<stream, pos, buffer, pc, messages, nComplete, nError,
                sawComplete, lateMessages, midLine, aborted, failure,
                nDecodeFail>>
parseVars == <<parseText, displayFormat, textLines, lineNo, sections,
               currentSection, inTable, parsePc, lastBranch>>
formatVars == <<tableData, display_format, result, formatPc>>
renderVars == <<renderText, rawData, renderFormat, speed, safeSpeed, view, renderPc>>
vars == <<hookVars, streamVars, parseVars, formatVars, renderVars>>

----------------------------------------------------------------------------
(* Bounds *)

MaxLen == 2             \* longest short target
MaxCompletions == 3     \* skipTyping is not called after this many completions
MaxLines == 3           \* most lines in a response body
MaxParseLines == 3      \* most lines in a text given to parseContentSections
MaxRows == 2            \* most rows or nodes in a short data array
MaxRenderLines == 2     \* most lines in a text of sections given to formatText

----------------------------------------------------------------------------
(* String helpers *)

Min(a, b) == IF a < b THEN a ELSE b
Max(a, b) == IF a < b THEN b ELSE a

\* String.prototype.startsWith
StartsWith(s, p) == Len(p) <= Len(s) /\ SubSeq(s, 1, Len(p)) = p

\* String.prototype.substring(0, n)
Substring0(s, n) == SubSeq(s, 1, Min(Max(n, 0), Len(s)))

\* String.prototype.slice(n)
SliceFrom(s, n) == SubSeq(s, Min(n, Len(s)) + 1, Len(s))

RECURSIVE StringsUpTo(_)
StringsUpTo(n) ==
    IF n = 0 THEN {<<>>}
    ELSE LET shorter == StringsUpTo(n - 1)
         IN  shorter \cup {Append(s, c) : s \in {x \in shorter : Len(x) = n - 1}, c \in {"a", "b"}}

----------------------------------------------------------------------------
(* Characters, markers and lines of text *)

NL == "\n"

\* A character outside ASCII is written as its code point.
MarkerAnalysis == <<"=", "=", "=", " ", "A", "N", "A", "L", "Y", "S", "I", "S", " ", "=", "=", "=">>
MarkerAnalisis == <<"=", "=", "=", " ", "A", "N", "U+00C1", "L", "I", "S", "I", "S", " ", "=", "=", "=">>
MarkerDataTable == <<"=", "=", "=", " ", "D", "A", "T", "A", " ", "T", "A", "B", "L", "E", " ", "=", "=", "=">>
MarkerTablaDeDatos == <<"=", "=", "=", " ", "T", "A", "B", "L", "A", " ", "D", "E", " ", "D", "A", "T", "O", "S", " ", "=", "=", "=">>
MarkerGraphData == <<"=", "=", "=", " ", "G", "R", "A", "P", "H", " ", "D", "A", "T", "A", " ", "=", "=", "=">>
Rows == <<"r", "o", "w", "s">>

\* The characters of the twelve line.includes('...') tests of the table branch.
BoxGlyphs == {"U+250C", "U+2502", "U+2514", "U+251C", "U+253C", "U+2524",
              "U+255E", "U+256A", "U+2561", "U+2554", "U+2551", "U+255A"}

\* Lines of the texts parsed
NearAnalysisLine == Append(MarkerAnalysis, ":")  \* === ANALYSIS ===:
NearTableLine == <<"#">> \o MarkerDataTable       \* #=== DATA TABLE ===
GlyphLine == <<"U+2502", "a">>                    \* a row of a single-line box
DoubleGlyphLine == <<"U+2551", "a">>              \* a row of a double-line box
RowsLine == <<"2", " ">> \o Rows                  \* 2 rows
GlyphRowsLine == <<"U+2502">> \o Rows             \* a table row whose cell says rows
PlainLine == <<"a">>
EmptyLine == <<>>

\* String.prototype.includes
Includes(s, sub) == \E i \in 0..(Len(s) - Len(sub)) : SubSeq(s, i + 1, i + Len(sub)) = sub

----------------------------------------------------------------------------
(* useTypewriter *)

TYPING_LAG_TOLERANCE == 10
MAX_INSTANT_CHARS == 10000

\* A target longer than MAX_INSTANT_CHARS, and one of exactly that length.
LongText == [i \in 1..(MAX_INSTANT_CHARS + 1) |-> "a"]
EdgeText == [i \in 1..MAX_INSTANT_CHARS |-> "a"]

NoResults == <<"N", "o", " ", "r", "e", "s", "u", "l", "t", "s", " ", "a", "v", "a", "i", "l", "a", "b", "l", "e">>

\* ResultsPanel.getResultsContent: interpretation is results.interpretation
\* ('' when absent), formatted the text the table formatter made of results.data
\* ('' when there are no rows), isGraphData the test on results.display_format.
getResultsContent(interpretation, formatted, isGraphData) ==
    LET analysis == IF interpretation # <<>>
                    THEN MarkerAnalysis \o <<NL, NL>> \o interpretation \o <<NL, NL>>
                    ELSE <<>>
        table == IF formatted # <<>>
                 THEN (IF isGraphData THEN MarkerGraphData ELSE MarkerDataTable)
                      \o <<NL, NL>> \o formatted
                 ELSE <<>>
        content == analysis \o table
    IN  IF content # <<>> THEN content ELSE NoResults

\* The contents ResultsPanel hands to StreamingText.
ResultsContents ==
    {getResultsContent(i, f, g) : i \in {<<>>, PlainLine}, f \in {<<>>, GlyphLine},
                                  g \in BOOLEAN}

Targets == StringsUpTo(MaxLen) \cup {LongText, EdgeText} \cup ResultsContents

\* The hook's state as one record, so that the handlers are functions on it.
Hook == [text |-> text, displayText |-> displayText, currentIndex |-> currentIndex,
         isTyping |-> isTyping, intervalRef |-> intervalRef, timers |-> timers,
         cleanup |-> cleanup, completions |-> completions, starts |-> 0]

Deps(h) == <<h.text, h.displayText, h.currentIndex>>

\* clearInterval(intervalRef.current); intervalRef.current = null
ClearTracked(h) ==
    IF h.intervalRef # 0
    THEN [h EXCEPT !.timers = {t \in h.timers : t.id # h.intervalRef}, !.intervalRef = 0]
    ELSE h

\* A cleanup function that clears nothing.
EffectCleanupNothing(h) == h

\* The cleanup function returned by the effect.
EffectCleanup(h) == IF h.cleanup THEN ClearTracked(h) ELSE h

\* IsExtension with an off-by-one in the length test.
IsExtensionOffByOne(h) ==
    /\ ~(Len(h.text) < Len(h.displayText))
    /\ Len(h.displayText) > 0
    /\ Len(h.text) > Len(h.displayText) + 1
    /\ StartsWith(h.text, h.displayText)
    /\ ~(Len(h.displayText) - h.currentIndex > TYPING_LAG_TOLERANCE)

IsExtension(h) ==
    LET isShrinking == Len(h.text) < Len(h.displayText)
        typingLag == Len(h.displayText) - h.currentIndex
        isTypingBehind == typingLag > TYPING_LAG_TOLERANCE
    IN  /\ ~isShrinking
        /\ Len(h.displayText) > 0
        /\ Len(h.text) > Len(h.displayText)
        /\ StartsWith(h.text, h.displayText)
        /\ ~isTypingBehind

FreshId(h) == CHOOSE n \in 1..(Cardinality(h.timers) + 1) : \A t \in h.timers : t.id # n

\* if (!intervalRef.current) intervalRef.current = setInterval(..., safeSpeed)
StartInterval(h) ==
    IF h.intervalRef = 0
    THEN LET id == FreshId(h)
         IN  [h EXCEPT !.timers = h.timers \cup {[id |-> id, text |-> h.text]},
                       !.intervalRef = id,
                       !.starts = h.starts + 1]
    ELSE h

\* Restart that resets the displayed text but not the index.
RestartKeepsIndex(h) ==
    LET reset == IF Len(h.text) > MAX_INSTANT_CHARS
                 THEN [h EXCEPT !.displayText = Substring0(h.text, MAX_INSTANT_CHARS)]
                 ELSE [h EXCEPT !.displayText = <<>>]
        typing == [reset EXCEPT !.isTyping = TRUE]
    IN  [StartInterval(ClearTracked(typing)) EXCEPT !.cleanup = TRUE]

\* The else branch of the effect: reset, clear the interval, start a new one.
Restart(h) ==
    LET reset == IF Len(h.text) > MAX_INSTANT_CHARS
                 THEN [h EXCEPT !.displayText = Substring0(h.text, MAX_INSTANT_CHARS),
                                !.currentIndex = MAX_INSTANT_CHARS]
                 ELSE [h EXCEPT !.displayText = <<>>, !.currentIndex = 0]
        typing == [reset EXCEPT !.isTyping = TRUE]
    IN  [StartInterval(ClearTracked(typing)) EXCEPT !.cleanup = TRUE]

\* The effect body without the early return for an unchanged text.
EffectBodyNoSameCheck(h) ==
    IF h.text = <<>> THEN [h EXCEPT !.isTyping = FALSE, !.cleanup = FALSE]
    ELSE IF IsExtension(h) THEN [h EXCEPT !.isTyping = TRUE, !.cleanup = FALSE]
    ELSE Restart(h)

\* One run of the effect body.
EffectBody(h) ==
    IF h.text = <<>> THEN [h EXCEPT !.isTyping = FALSE, !.cleanup = FALSE]
    ELSE IF h.text = h.displayText THEN [h EXCEPT !.cleanup = FALSE]
    ELSE IF IsExtension(h) THEN [h EXCEPT !.isTyping = TRUE, !.cleanup = FALSE]
    ELSE Restart(h)

\* Re-render after a change: while a dependency differs from the one the
\* effect last ran with, run the previous cleanup and the effect again.
RECURSIVE Settle(_, _)
Settle(h, ran) ==
    IF Deps(h) = Deps(ran) THEN h
    ELSE Settle(EffectBody(EffectCleanup(h)), h)

\* The interval callback of timer t.
IntervalTick(h, t) ==
    LET prevIndex == h.currentIndex
    IN  IF prevIndex < Len(t.text)
        THEN [h EXCEPT !.displayText = Substring0(t.text, prevIndex + 1),
                       !.currentIndex = prevIndex + 1]
        ELSE [ClearTracked(h) EXCEPT !.isTyping = FALSE,
                                     !.completions = h.completions + 1]

\* skipTyping that forgets setCurrentIndex(text.length).
skipTypingNoIndex(h) ==
    [ClearTracked(h) EXCEPT !.displayText = h.text,
                            !.isTyping = FALSE,
                            !.completions = h.completions + 1]

skipTyping(h) ==
    [ClearTracked(h) EXCEPT !.displayText = h.text,
                            !.currentIndex = Len(h.text),
                            !.isTyping = FALSE,
                            !.completions = h.completions + 1]

Snapshot == [text |-> text, displayText |-> displayText, currentIndex |-> currentIndex,
             isTyping |-> isTyping, intervalRef |-> intervalRef, timers |-> timers,
             completions |-> completions]

Commit(h) ==
    /\ text' = h.text
    /\ displayText' = h.displayText
    /\ currentIndex' = h.currentIndex
    /\ isTyping' = h.isTyping
    /\ intervalRef' = h.intervalRef
    /\ timers' = h.timers
    /\ cleanup' = h.cleanup
    /\ completions' = h.completions
    /\ starts' = h.starts
    /\ pre' = Snapshot

\* The component mounts with an empty text; the effect runs once.
MountedHook ==
    EffectBody([text |-> <<>>, displayText |-> <<>>, currentIndex |-> 0,
                isTyping |-> FALSE, intervalRef |-> 0, timers |-> {},
                cleanup |-> FALSE, completions |-> 0, starts |-> 0])

InitHook ==
    /\ text = MountedHook.text
    /\ displayText = MountedHook.displayText
    /\ currentIndex = MountedHook.currentIndex
    /\ isTyping = MountedHook.isTyping
    /\ intervalRef = MountedHook.intervalRef
    /\ timers = MountedHook.timers
    /\ cleanup = MountedHook.cleanup
    /\ completions = MountedHook.completions
    /\ starts = 0
    /\ lastOp = "mount"
    /\ pre = [text |-> <<>>, displayText |-> <<>>, currentIndex |-> 0,
              isTyping |-> FALSE, intervalRef |-> 0, timers |-> {}, completions |-> 0]
    /\ nAdv = 0
    /\ skipped = FALSE
    /\ ticks = 0
    /\ prevText = <<>>
    /\ mounted = TRUE

\* advance(t): the caller re-renders with text = t.
Advance ==
    /\ mounted
    /\ \E t \in Targets :
        /\ Commit(Settle([Hook EXCEPT !.text = t], Hook))
        /\ lastOp' = "advance"
        /\ nAdv' = Min(nAdv + 1, 2)
        /\ ticks' = IF t = text THEN ticks ELSE 0
        /\ prevText' = IF t = text THEN prevText ELSE text
        /\ UNCHANGED <<skipped, mounted>>

\* A live interval fires. After the unmount React drops the state update.
Tick ==
    \E t \in timers :
        /\ IF mounted
           THEN /\ Commit(Settle(IntervalTick(Hook, t), Hook))
                /\ ticks' = IF currentIndex < Len(t.text) THEN ticks + 1 ELSE ticks
           ELSE /\ Commit(Hook)
                /\ ticks' = ticks
        /\ lastOp' = "tick"
        /\ UNCHANGED <<nAdv, skipped, prevText, mounted>>

\* skip(): the caller invokes skipTyping.
Skip ==
    /\ mounted
    /\ completions < MaxCompletions
    /\ Commit(Settle(skipTyping(Hook), Hook))
    /\ lastOp' = "skip"
    /\ skipped' = TRUE
    /\ UNCHANGED <<nAdv, ticks, prevText, mounted>>

\* The component unmounts: React runs the cleanup the effect last returned.
Unmount ==
    /\ mounted
    /\ mounted' = FALSE
    /\ Commit(EffectCleanup(Hook))
    /\ lastOp' = "unmount"
    /\ UNCHANGED <<nAdv, skipped, ticks, prevText>>

InitStreamIdle ==
    /\ stream = <<>>
    /\ pos = 0
    /\ buffer = <<>>
    /\ pc = "idle"
    /\ messages = <<>>
    /\ nComplete = 0
    /\ nError = 0
    /\ sawComplete = FALSE
    /\ lateMessages = 0
    /\ midLine = FALSE
    /\ aborted = FALSE
    /\ failure = "none"
    /\ nDecodeFail = 0

InitParseIdle ==
    /\ parseText = <<>>
    /\ displayFormat = "table"
    /\ textLines = <<>>
    /\ lineNo = 0
    /\ sections = <<>>
    /\ currentSection = [type |-> "text", content |-> <<>>]
    /\ inTable = FALSE
    /\ parsePc = "idle"
    /\ lastBranch = "none"

InitFormatIdle ==
    /\ tableData = [kind |-> "null", rows |-> <<>>]
    /\ display_format = "table"
    /\ result = [threw |-> FALSE, out |-> <<>>]
    /\ formatPc = "idle"

InitRenderIdle ==
    /\ renderText = <<>>
    /\ rawData = [kind |-> "null", rows |-> <<>>]
    /\ renderFormat = "table"
    /\ speed = [given |-> FALSE, ms |-> 0]
    /\ safeSpeed = 0
    /\ view = [kind |-> "none", parsed |-> FALSE, threw |-> FALSE, elements |-> <<>>]
    /\ renderPc = "idle"

InitReveal == InitHook /\ InitStreamIdle /\ InitParseIdle /\ InitFormatIdle /\ InitRenderIdle

NextReveal ==
    \/ Advance /\ UNCHANGED <<streamVars, parseVars, formatVars, renderVars>>
    \/ Tick /\ UNCHANGED <<streamVars, parseVars, formatVars, renderVars>>
    \/ Skip /\ UNCHANGED <<streamVars, parseVars, formatVars, renderVars>>
    \/ Unmount /\ UNCHANGED <<streamVars, parseVars, formatVars, renderVars>>

SpecReveal == InitReveal /\ [][NextReveal]_vars

\* The scheduler runs a live interval again and again.
FairReveal == SpecReveal /\ WF_vars(Tick /\ UNCHANGED <<streamVars, parseVars, formatVars, renderVars>>)

----------------------------------------------------------------------------
(* searchStream *)

DataPrefix == <<"d", "a", "t", "a", ":", " ">>
Whitespace == {" ", "\t", "\r", NL}

\* The JSON text {"status":"complete"}
CompleteJson == <<"{", "\"", "s", "t", "a", "t", "u", "s", "\"", ":",
                  "\"", "c", "o", "m", "p", "l", "e", "t", "e", "\"", "}">>

\* Lines a response body is made of.
LineMsg1 == DataPrefix \o <<"1">>               \* data: 1
LineMsg2 == DataPrefix \o <<"2">>               \* data: 2
LineComplete == DataPrefix \o CompleteJson      \* data: {"status":"complete"}
LineMalformed == DataPrefix \o <<"{">>          \* data: {
LineBlankData == DataPrefix \o <<" ">>          \* "data: " followed by a space
LineNoSpace == <<"d", "a", "t", "a", ":", "1">> \* data:1
LineEmpty == <<>>                               \* the empty line between events

LineCatalog == {LineMsg1, LineMsg2, LineComplete, LineMalformed,
                LineBlankData, LineNoSpace, LineEmpty}

\* lines.join('\n'), with a final newline iff terminated
RECURSIVE JoinLines(_, _)
JoinLines(ls, terminated) ==
    IF ls = <<>> THEN <<>>
    ELSE IF Len(ls) = 1 THEN (IF terminated THEN Append(ls[1], NL) ELSE ls[1])
    ELSE Append(ls[1], NL) \o JoinLines(Tail(ls), terminated)

Streams ==
    {JoinLines(ls, term) :
        ls \in UNION {[1..n -> LineCatalog] : n \in 0..MaxLines}, term \in BOOLEAN}

\* String.prototype.split('\n'): cut at the newline nearest to the middle,
\* split both sides
RECURSIVE Split(_)
Split(s) ==
    LET nls == {i \in 1..Len(s) : s[i] = NL}
        far(i) == IF 2 * i < Len(s) THEN Len(s) - 2 * i ELSE 2 * i - Len(s)
    IN  IF nls = {} THEN <<s>>
        ELSE LET cut == CHOOSE i \in nls : \A j \in nls : far(i) <= far(j)
             IN  Split(SubSeq(s, 1, cut - 1)) \o Split(SubSeq(s, cut + 1, Len(s)))

\* String.prototype.trim
RECURSIVE TrimStart(_)
TrimStart(s) == IF s # <<>> /\ Head(s) \in Whitespace THEN TrimStart(Tail(s)) ELSE s
RECURSIVE TrimEnd(_)
TrimEnd(s) ==
    IF s # <<>> /\ s[Len(s)] \in Whitespace THEN TrimEnd(SubSeq(s, 1, Len(s) - 1)) ELSE s
Trim(s) == TrimEnd(TrimStart(s))

\* JSON.parse on the texts that can occur: a number made of the digits 1
\* and 2, or the object {"status":"complete"}; anything else throws.
JSONParse(s) ==
    LET t == Trim(s)
    IN  IF t = CompleteJson
        THEN [ok |-> TRUE, status |-> "complete", json |-> t]
        ELSE IF t # <<>> /\ \A i \in 1..Len(t) : t[i] \in {"1", "2"}
        THEN [ok |-> TRUE, status |-> "undefined", json |-> t]
        ELSE [ok |-> FALSE, status |-> "undefined", json |-> <<>>]

\* The callbacks' effects so far, and whether processStream has returned.
Calls == [messages |-> messages, nComplete |-> nComplete,
          lateMessages |-> lateMessages, sawComplete |-> sawComplete,
          nDecodeFail |-> nDecodeFail, returned |-> FALSE]

\* Deliver that does not hand the terminal message to onMessage.
DeliverNotTerminal(c, parsed) ==
    IF parsed.status = "complete"
    THEN [c EXCEPT !.nComplete = c.nComplete + 1,
                   !.sawComplete = TRUE,
                   !.returned = TRUE]
    ELSE [c EXCEPT !.messages = Append(c.messages, parsed),
                   !.lateMessages = IF c.nComplete > 0 THEN c.lateMessages + 1
                                    ELSE c.lateMessages]

\* onMessage(parsed); if (parsed.status === 'complete') { onComplete(); return; }
Deliver(c, parsed) ==
    LET told == [c EXCEPT !.messages = Append(c.messages, parsed),
                          !.lateMessages = IF c.nComplete > 0 THEN c.lateMessages + 1
                                           ELSE c.lateMessages]
    IN  IF parsed.status = "complete"
        THEN [told EXCEPT !.nComplete = told.nComplete + 1,
                          !.sawComplete = TRUE,
                          !.returned = TRUE]
        ELSE told

\* The loop body without the try/catch around JSON.parse: the exception
\* leaves the loop.
ProcessLineNoCatch(c, line) ==
    IF StartsWith(line, DataPrefix)
    THEN LET data == SliceFrom(line, 6)
         IN  IF Trim(data) # <<>>
             THEN LET parsed == JSONParse(data)
                  IN  IF parsed.ok THEN Deliver(c, parsed)
                      ELSE [c EXCEPT !.nDecodeFail = c.nDecodeFail + 1,
                                     !.returned = TRUE]
             ELSE c
    ELSE c

\* The loop body with the prefix 'data:' in place of 'data: '.
ProcessLineLoosePrefix(c, line) ==
    IF StartsWith(line, SubSeq(DataPrefix, 1, 5))
    THEN LET data == SliceFrom(line, 5)
         IN  IF Trim(data) # <<>>
             THEN LET parsed == JSONParse(data)
                  IN  IF parsed.ok THEN Deliver(c, parsed)
                      ELSE [c EXCEPT !.nDecodeFail = c.nDecodeFail + 1]
             ELSE c
    ELSE c

\* The body of the for loop, for one line.
ProcessLine(c, line) ==
    IF StartsWith(line, DataPrefix)
    THEN LET data == SliceFrom(line, 6)
         IN  IF Trim(data) # <<>>
             THEN LET parsed == JSONParse(data)
                  IN  IF parsed.ok THEN Deliver(c, parsed)
                      ELSE [c EXCEPT !.nDecodeFail = c.nDecodeFail + 1]
             ELSE c
    ELSE c

\* The loop without the return after onComplete.
RECURSIVE ProcessLinesNoReturn(_, _)
ProcessLinesNoReturn(c, lines) ==
    IF lines = <<>> THEN c
    ELSE ProcessLinesNoReturn(ProcessLine(c, Head(lines)), Tail(lines))

\* for (const line of lines) { ... }
RECURSIVE ProcessLines(_, _)
ProcessLines(c, lines) ==
    IF lines = <<>> \/ c.returned THEN c
    ELSE ProcessLines(ProcessLine(c, Head(lines)), Tail(lines))

\* A buffer that drops the unfinished fragment.
HeldBackDropped(lines) == <<>>

\* buffer = lines.pop() || ''
HeldBack(lines) == lines[Len(lines)]
CompleteLines(lines) == SubSeq(lines, 1, Len(lines) - 1)

InitStream ==
    /\ stream \in Streams
    /\ pos = 0
    /\ buffer = <<>>
    /\ pc = "fetch"
    /\ messages = <<>>
    /\ nComplete = 0
    /\ nError = 0
    /\ sawComplete = FALSE
    /\ lateMessages = 0
    /\ midLine = FALSE
    /\ aborted = FALSE
    /\ failure = "none"
    /\ nDecodeFail = 0

\* fetch resolves with an ok response that has a body.
FetchOk ==
    /\ pc = "fetch" /\ ~aborted
    /\ pc' = "read"
    /\ UNCHANGED <<stream, pos, buffer, messages, nComplete, nError,
                   sawComplete, lateMessages, midLine, aborted, failure,
                   nDecodeFail>>

\* The .catch of the fetch chain that forgets the AbortError test.
OuterCatchAlways(kind) ==
    /\ nError' = nError + 1
    /\ failure' = IF kind = "abort" THEN failure ELSE kind
    /\ pc' = IF kind = "abort" THEN "aborted" ELSE "failed"
    /\ UNCHANGED <<stream, pos, buffer, messages, nComplete, sawComplete,
                   lateMessages, midLine, aborted, nDecodeFail>>

\* .catch(error => { if (error.name !== 'AbortError') onError(error) })
OuterCatch(kind) ==
    /\ nError' = IF kind = "abort" THEN nError ELSE nError + 1
    /\ failure' = IF kind = "abort" THEN failure ELSE kind
    /\ pc' = IF kind = "abort" THEN "aborted" ELSE "failed"
    /\ UNCHANGED <<stream, pos, buffer, messages, nComplete, sawComplete,
                   lateMessages, midLine, aborted, nDecodeFail>>

\* A read error handler that also reports completion.
InnerCatchThenComplete(kind) ==
    /\ nError' = IF kind = "abort" THEN nError ELSE nError + 1
    /\ nComplete' = nComplete + 1
    /\ failure' = IF kind = "abort" THEN failure ELSE kind
    /\ pc' = IF kind = "abort" THEN "aborted" ELSE "failed"
    /\ UNCHANGED <<stream, pos, buffer, messages, sawComplete,
                   lateMessages, midLine, aborted, nDecodeFail>>

\* catch (error) { if (error.name === 'AbortError') log else onError(error) }
\* finally { reader.releaseLock() }
InnerCatch(kind) ==
    /\ nError' = IF kind = "abort" THEN nError ELSE nError + 1
    /\ failure' = IF kind = "abort" THEN failure ELSE kind
    /\ pc' = IF kind = "abort" THEN "aborted" ELSE "failed"
    /\ UNCHANGED <<stream, pos, buffer, messages, nComplete, sawComplete,
                   lateMessages, midLine, aborted, nDecodeFail>>

\* fetch rejects (network failure).
FetchReject == pc = "fetch" /\ ~aborted /\ OuterCatch("reject")

\* fetch resolves with a response that is not ok: the then callback throws.
FetchNotOk == pc = "fetch" /\ ~aborted /\ OuterCatch("status")

\* fetch resolves with an ok response without a body: processStream throws
\* before its try block; its promise is neither awaited nor returned, so the
\* rejection reaches no handler.
FetchNoBody ==
    /\ pc = "fetch" /\ ~aborted
    /\ failure' = "nobody"
    /\ pc' = "failed"
    /\ UNCHANGED <<stream, pos, buffer, messages, nComplete, nError,
                   sawComplete, lateMessages, midLine, aborted, nDecodeFail>>

\* cancel(): abortController.abort()
Cancel ==
    /\ pc # "idle" /\ ~aborted
    /\ aborted' = TRUE
    /\ UNCHANGED <<stream, pos, buffer, pc, messages, nComplete, nError,
                   sawComplete, lateMessages, midLine, failure, nDecodeFail>>

\* The pending fetch rejects with an AbortError.
FetchAborted == pc = "fetch" /\ aborted /\ OuterCatch("abort")

\* The pending reader.read() rejects with an AbortError.
ReadAborted == pc = "read" /\ aborted /\ InnerCatch("abort")

\* reader.read() rejects with another error.
ReadError == pc = "read" /\ ~aborted /\ InnerCatch("read")

\* reader.read() resolves with the next k characters of the body.
ReadChunk ==
    /\ pc = "read" /\ ~aborted
    /\ \E k \in 1..(Len(stream) - pos) :
        LET value == SubSeq(stream, pos + 1, pos + k)
            lines == Split(buffer \o value)
            c == ProcessLines(Calls, CompleteLines(lines))
        IN  /\ pos' = pos + k
            /\ buffer' = HeldBack(lines)
            /\ messages' = c.messages
            /\ nComplete' = c.nComplete
            /\ lateMessages' = c.lateMessages
            /\ sawComplete' = c.sawComplete
            /\ nDecodeFail' = c.nDecodeFail
            /\ pc' = IF c.returned THEN "done" ELSE "read"
            /\ midLine' = (midLine \/ HeldBack(lines) # <<>>)
    /\ UNCHANGED <<stream, nError, aborted, failure>>

\* ReadDone that hands what is left in the buffer to the loop body.
ReadDoneFlushes ==
    /\ pc = "read" /\ ~aborted
    /\ pos = Len(stream)
    /\ LET c == ProcessLine(Calls, buffer)
       IN  /\ messages' = c.messages
           /\ sawComplete' = c.sawComplete
           /\ nDecodeFail' = c.nDecodeFail
           /\ nComplete' = IF c.returned THEN c.nComplete ELSE c.nComplete + 1
    /\ pc' = "done"
    /\ UNCHANGED <<stream, pos, buffer, nError, lateMessages, midLine, aborted, failure>>

\* reader.read() resolves with done: true.
ReadDone ==
    /\ pc = "read" /\ ~aborted
    /\ pos = Len(stream)
    /\ nComplete' = nComplete + 1
    /\ pc' = "done"
    /\ UNCHANGED <<stream, pos, buffer, messages, nError, sawComplete,
                   lateMessages, midLine, aborted, failure, nDecodeFail>>

InitIngest == InitHook /\ InitStream /\ InitParseIdle /\ InitFormatIdle /\ InitRenderIdle

NextIngest ==
    \/ FetchOk /\ UNCHANGED <<hookVars, parseVars, formatVars, renderVars>>
    \/ FetchReject /\ UNCHANGED <<hookVars, parseVars, formatVars, renderVars>>
    \/ FetchNotOk /\ UNCHANGED <<hookVars, parseVars, formatVars, renderVars>>
    \/ FetchNoBody /\ UNCHANGED <<hookVars, parseVars, formatVars, renderVars>>
    \/ FetchAborted /\ UNCHANGED <<hookVars, parseVars, formatVars, renderVars>>
    \/ Cancel /\ UNCHANGED <<hookVars, parseVars, formatVars, renderVars>>
    \/ ReadChunk /\ UNCHANGED <<hookVars, parseVars, formatVars, renderVars>>
    \/ ReadDone /\ UNCHANGED <<hookVars, parseVars, formatVars, renderVars>>
    \/ ReadError /\ UNCHANGED <<hookVars, parseVars, formatVars, renderVars>>
    \/ ReadAborted /\ UNCHANGED <<hookVars, parseVars, formatVars, renderVars>>

SpecStream == InitIngest /\ [][NextIngest]_vars

----------------------------------------------------------------------------
(* parseContentSections (StreamingText) *)

ParseLineCatalog == {MarkerAnalysis, MarkerAnalisis, MarkerDataTable,
                     MarkerTablaDeDatos, MarkerGraphData, NearAnalysisLine,
                     NearTableLine, GlyphLine, DoubleGlyphLine, RowsLine,
                     GlyphRowsLine, PlainLine, EmptyLine}

\* Array.prototype.join('\n')
RECURSIVE Join(_)
Join(ls) ==
    IF ls = <<>> THEN <<>>
    ELSE IF Len(ls) = 1 THEN ls[1]
    ELSE LET half == Len(ls) \div 2
         IN  Join(SubSeq(ls, 1, half)) \o <<NL>> \o Join(SubSeq(ls, half + 1, Len(ls)))

ParseTexts == {Join(ls) : ls \in UNION {[1..n -> ParseLineCatalog] : n \in 0..MaxParseLines}}

HasGlyph(l) == \E i \in 1..Len(l) : l[i] \in BoxGlyphs

\* IsAnalysisMarker with includes() in place of ===.
IsAnalysisMarkerIncludes(l) == Includes(l, MarkerAnalysis) \/ Includes(l, MarkerAnalisis)

IsAnalysisMarker(l) == l = MarkerAnalysis \/ l = MarkerAnalisis

IsTableMarker(l) == l = MarkerDataTable \/ l = MarkerTablaDeDatos \/ l = MarkerGraphData

\* The loop's variables as one record, so that the branches are functions on it.
Parser == [sections |-> sections, currentSection |-> currentSection, inTable |-> inTable]

\* { ...currentSection, content: currentSection.content.join('\n') }
Joined(cur) == [type |-> cur.type, content |-> Join(cur.content)]

\* PushCurrent without the test for an empty section.
PushCurrentAlways(st) == Append(st.sections, Joined(st.currentSection))

\* if (currentSection.content.length > 0) sections.push(...)
PushCurrent(st) ==
    IF Len(st.currentSection.content) > 0
    THEN Append(st.sections, Joined(st.currentSection))
    ELSE st.sections

\* currentSection.content.push(line)
PushLine(st, l) ==
    [st EXCEPT !.currentSection.content = Append(st.currentSection.content, l)]

AnalysisMarkerBranch(st, l) ==
    [sections |-> PushCurrent(st),
     currentSection |-> [type |-> "analysis", content |-> <<l>>],
     inTable |-> FALSE]

TableMarkerBranch(st, l, fmt) ==
    LET tableType == IF fmt = "neo4j_graph" THEN "graph-table-header" ELSE "table-header"
    IN  [sections |-> PushCurrent(st),
         currentSection |-> [type |-> tableType, content |-> <<l>>],
         inTable |-> TRUE]

GlyphBranch(st, l, fmt) ==
    LET tableType == IF fmt = "neo4j_graph" THEN "graph-table" ELSE "table"
    IN  IF st.currentSection.type # tableType /\ st.currentSection.type # "table"
        THEN [sections |-> PushCurrent(st),
              currentSection |-> [type |-> tableType, content |-> <<l>>],
              inTable |-> st.inTable]
        ELSE PushLine(st, l)

\* RowsBranch that forgets inTable = false.
RowsBranchStaysInTable(st, l) ==
    [sections |-> Append(st.sections, Joined(PushLine(st, l).currentSection)),
     currentSection |-> [type |-> "text", content |-> <<>>],
     inTable |-> st.inTable]

RowsBranch(st, l) ==
    [sections |-> Append(st.sections, Joined(PushLine(st, l).currentSection)),
     currentSection |-> [type |-> "text", content |-> <<>>],
     inTable |-> FALSE]

ElseBranch(st, l) ==
    IF st.inTable /\ st.currentSection.type = "table"
    THEN [sections |-> PushCurrent(st),
          currentSection |-> [type |-> "analysis", content |-> <<l>>],
          inTable |-> FALSE]
    ELSE PushLine(st, l)

\* The branch of the if / else-if chain that line l takes in state st.
BranchOf(st, l) ==
    IF IsAnalysisMarker(l) THEN "analysis-marker"
    ELSE IF IsTableMarker(l) THEN "table-marker"
    ELSE IF st.inTable /\ HasGlyph(l) THEN "glyph"
    ELSE IF /\ st.inTable
            /\ st.currentSection.type = "table"
            /\ Trim(l) # <<>>
            /\ ~Includes(l, Rows) THEN "continue"
    ELSE IF st.inTable /\ Includes(l, Rows) THEN "rows"
    ELSE "else"

\* The body of the for loop, for one line.
ParseLine(st, l, fmt) ==
    LET branch == BranchOf(st, l)
    IN  CASE branch = "analysis-marker" -> AnalysisMarkerBranch(st, l)
          [] branch = "table-marker" -> TableMarkerBranch(st, l, fmt)
          [] branch = "glyph" -> GlyphBranch(st, l, fmt)
          [] branch = "continue" -> PushLine(st, l)
          [] branch = "rows" -> RowsBranch(st, l)
          [] OTHER -> ElseBranch(st, l)

ParserStart ==
    [sections |-> <<>>, currentSection |-> [type |-> "text", content |-> <<>>],
     inTable |-> FALSE]

RECURSIVE ParseLines(_, _, _)
ParseLines(st, ls, fmt) ==
    IF ls = <<>> THEN st ELSE ParseLines(ParseLine(st, Head(ls), fmt), Tail(ls), fmt)

\* The whole function.
parseContentSections(t, fmt) ==
    IF t = <<>> THEN <<>> ELSE PushCurrent(ParseLines(ParserStart, Split(t), fmt))

InitParse ==
    /\ parseText \in ParseTexts
    /\ displayFormat \in {"table", "neo4j_graph"}
    /\ textLines = <<>>
    /\ lineNo = 0
    /\ sections = <<>>
    /\ currentSection = [type |-> "text", content |-> <<>>]
    /\ inTable = FALSE
    /\ parsePc = "call"
    /\ lastBranch = "none"

\* Entry: if (!text) return []; otherwise split and set up the loop.
ParseCall ==
    /\ parsePc = "call"
    /\ IF parseText = <<>>
       THEN parsePc' = "returned" /\ textLines' = <<>>
       ELSE parsePc' = "loop" /\ textLines' = Split(parseText)
    /\ sections' = ParserStart.sections
    /\ currentSection' = ParserStart.currentSection
    /\ inTable' = ParserStart.inTable
    /\ UNCHANGED <<parseText, displayFormat, lineNo, lastBranch>>

\* One iteration of for (const line of lines).
ParseStep ==
    /\ parsePc = "loop"
    /\ lineNo < Len(textLines)
    /\ LET l == textLines[lineNo + 1]
           st == ParseLine(Parser, l, displayFormat)
       IN  /\ sections' = st.sections
           /\ currentSection' = st.currentSection
           /\ inTable' = st.inTable
           /\ lastBranch' = BranchOf(Parser, l)
    /\ lineNo' = lineNo + 1
    /\ UNCHANGED <<parseText, displayFormat, textLines, parsePc>>

\* After the loop: add the last section and return.
ParseReturn ==
    /\ parsePc = "loop"
    /\ lineNo = Len(textLines)
    /\ sections' = PushCurrent(Parser)
    /\ parsePc' = "returned"
    /\ UNCHANGED <<parseText, displayFormat, textLines, lineNo, currentSection,
                   inTable, lastBranch>>

InitSections == InitHook /\ InitStreamIdle /\ InitParse /\ InitFormatIdle /\ InitRenderIdle

NextSections ==
    \/ ParseCall /\ UNCHANGED <<hookVars, streamVars, formatVars, renderVars>>
    \/ ParseStep /\ UNCHANGED <<hookVars, streamVars, formatVars, renderVars>>
    \/ ParseReturn /\ UNCHANGED <<hookVars, streamVars, formatVars, renderVars>>

SpecParse == InitSections /\ [][NextSections]_vars


----------------------------------------------------------------------------
(* StreamingText: the text and typing state the component renders *)

isStructuredContent(content) ==
    /\ content # <<>>
    /\ (Includes(content, MarkerAnalysis) \/ Includes(content, MarkerDataTable))

\* const { displayText, isTyping } = isStructuredContent ? {...} : typewriterResult
Rendered ==
    IF isStructuredContent(text)
    THEN [displayText |-> text, isTyping |-> FALSE]
    ELSE [displayText |-> displayText, isTyping |-> isTyping]

----------------------------------------------------------------------------
(* formatAsTable and formatAsGraphTable (utils/tableFormatter.ts) *)

\* Values of row fields.  A number is held in thousandths (1234.5 is 1234500);
\* a field that is absent reads as undefined.
Num(m) == [kind |-> "num", num |-> m, str |-> <<>>, list |-> <<>>]
Str(s) == [kind |-> "str", num |-> 0, str |-> s, list |-> <<>>]
List(l) == [kind |-> "list", num |-> 0, str |-> <<>>, list |-> l]
Null == [kind |-> "null", num |-> 0, str |-> <<>>, list |-> <<>>]
Undefined == [kind |-> "undef", num |-> 0, str |-> <<>>, list |-> <<>>]

\* An element of the data array: an object with its fields in key order, or null.
Obj(entries) == [null |-> FALSE, entries |-> entries]
NullElement == [null |-> TRUE, entries |-> <<>>]
Field(k, v) == [key |-> k, value |-> v]

\* The data argument: an array, null / undefined, or an object that is not an array.
Array(rows) == [kind |-> "array", rows |-> rows]
NoArray == [kind |-> "object", rows |-> <<>>]
NullData == [kind |-> "null", rows |-> <<>>]

\* Object.keys with the keys in reverse order.
KeysReversed(obj) ==
    [i \in 1..Len(obj.entries) |-> obj.entries[Len(obj.entries) + 1 - i].key]

\* Object.keys(obj)
Keys(obj) == [i \in 1..Len(obj.entries) |-> obj.entries[i].key]

\* obj[key]
Get(obj, key) ==
    IF \E i \in 1..Len(obj.entries) : obj.entries[i].key = key
    THEN obj.entries[CHOOSE i \in 1..Len(obj.entries) : obj.entries[i].key = key].value
    ELSE Undefined

RECURSIVE Concat(_)
Concat(ss) ==
    IF ss = <<>> THEN <<>>
    ELSE IF Len(ss) = 1 THEN ss[1]
    ELSE LET half == Len(ss) \div 2
         IN  Concat(SubSeq(ss, 1, half)) \o Concat(SubSeq(ss, half + 1, Len(ss)))

\* String.prototype.repeat
Repeat(c, n) == [i \in 1..n |-> c]

\* Array.prototype.join(',')
RECURSIVE JoinComma(_)
JoinComma(ls) ==
    IF ls = <<>> THEN <<>>
    ELSE IF Len(ls) = 1 THEN ls[1]
    ELSE Append(ls[1], ",") \o JoinComma(Tail(ls))

DigitChars == <<"0", "1", "2", "3", "4", "5", "6", "7", "8", "9">>

\* The decimal digits of a natural number.
RECURSIVE Digits(_)
Digits(n) ==
    IF n < 10 THEN <<DigitChars[n + 1]>>
    ELSE Append(Digits(n \div 10), DigitChars[(n % 10) + 1])

\* The en-US grouping of a digit string: a comma before every three digits.
RECURSIVE Grouped(_)
Grouped(ds) ==
    IF Len(ds) <= 3 THEN ds
    ELSE Grouped(SubSeq(ds, 1, Len(ds) - 3)) \o <<",">> \o SubSeq(ds, Len(ds) - 2, Len(ds))

Abs(m) == IF m < 0 THEN 0 - m ELSE m
Sign(m) == IF m < 0 THEN <<"-">> ELSE <<>>

\* value.toLocaleString('en-US') of an integer value.
ToLocaleInteger(m) == Sign(m) \o Grouped(Digits(Abs(m) \div 1000))

\* value.toLocaleString('en-US', {minimumFractionDigits: 2, maximumFractionDigits: 2}):
\* rounded to hundredths.
ToLocaleTwoDecimals(m) ==
    LET hundredths == (Abs(m) + 5) \div 10
    IN  Sign(m) \o Grouped(Digits(hundredths \div 100)) \o <<".">>
        \o <<DigitChars[((hundredths % 100) \div 10) + 1], DigitChars[(hundredths % 10) + 1]>>

\* String(value) of a value that is not a number.
StringOf(v) ==
    CASE v.kind = "str" -> v.str
      [] v.kind = "list" -> JoinComma(v.list)
      [] v.kind = "null" -> <<"n", "u", "l", "l">>
      [] OTHER -> <<"u", "n", "d", "e", "f", "i", "n", "e", "d">>

\* formatNumber without the branch for decimals.
formatNumberNoDecimals(value) ==
    IF value.kind = "num" THEN ToLocaleInteger(value.num) ELSE StringOf(value)

formatNumber(value) ==
    IF value.kind = "num"
    THEN IF value.num % 1000 # 0 THEN ToLocaleTwoDecimals(value.num)
         ELSE ToLocaleInteger(value.num)
    ELSE StringOf(value)

\* isNaN(parseFloat(s)): parseFloat skips leading white space and reads the
\* longest prefix that is a decimal literal or Infinity.
ParseFloatIsNaN(s) ==
    LET t == TrimStart(s)
        u == IF t # <<>> /\ Head(t) \in {"+", "-"} THEN Tail(t) ELSE t
        isDigit(c) == \E i \in 1..10 : DigitChars[i] = c
    IN  ~ \/ (u # <<>> /\ isDigit(u[1]))
          \/ (Len(u) >= 2 /\ u[1] = "." /\ isDigit(u[2]))
          \/ StartsWith(u, <<"I", "n", "f", "i", "n", "i", "t", "y">>)

isNumeric(value) == value.kind = "num" \/ ~ParseFloatIsNaN(StringOf(value))

\* String.prototype.padStart / padEnd with ' '
PadStart(s, width) == Repeat(" ", width - Len(s)) \o s
PadEnd(s, width) == s \o Repeat(" ", width - Len(s))

padCell(value, width, alignRight) ==
    IF alignRight THEN PadStart(value, width) ELSE PadEnd(value, width)

\* The characters of BOX.
BOX == [topLeft |-> "U+250C", topRight |-> "U+2510", bottomLeft |-> "U+2514",
        bottomRight |-> "U+2518", horizontal |-> "U+2500", vertical |-> "U+2502",
        cross |-> "U+253C", topJoin |-> "U+252C", bottomJoin |-> "U+2534",
        leftJoin |-> "U+251C", rightJoin |-> "U+2524", doubleHorizontal |-> "U+2550",
        headerLeftJoin |-> "U+255E", headerRightJoin |-> "U+2561",
        headerCross |-> "U+256A"]

NoDataAvailable == <<"N", "o", " ", "d", "a", "t", "a", " ", "a", "v", "a", "i", "l", "a", "b", "l", "e">>

MAX_ROWS == 100         \* data.slice(0, 100)
MAX_COL_WIDTH == 40     \* column widths and cell texts are capped at 40
TRUNCATED_LENGTH == 37  \* value.substring(0, 37) + '...'

Returned(out) == [threw |-> FALSE, out |-> out]
Threw == [threw |-> TRUE, out |-> <<>>]

\* colWidths[header] after the loop over all rows (there is at least one):
\* the running Math.min(Math.max(colWidths[header], strValue.length), 40)
\* ends at the longest of header and every strValue, capped at 40.
colWidths(rows, header) ==
    LET strValue(i) == formatNumber(Get(rows[i], header))
        lengths == {Len(strValue(i)) : i \in 1..Len(rows)} \cup {Len(header)}
    IN  Min(CHOOSE x \in lengths : \A y \in lengths : y <= x, MAX_COL_WIDTH)

\* colAlignments[header]: hasNumbers after the loop over all rows.
colAlignments(rows, header) ==
    \A i \in 1..Len(rows) :
        LET rawValue == Get(rows[i], header)
        IN  rawValue.kind \in {"null", "undef"} \/ isNumeric(rawValue)

\* A border line: left corner, a run of fill per column, joins between, right corner.
Border(widths, left, fill, join, right) ==
    <<left>> \o Concat([i \in 1..Len(widths) |->
                 Append(Repeat(fill, widths[i] + 2),
                        IF i < Len(widths) THEN join ELSE right)])

headerRow(headers, widths) ==
    <<BOX.vertical>> \o Concat([i \in 1..Len(headers) |->
        <<" ">> \o padCell(headers[i], widths[i], FALSE) \o <<" ", BOX.vertical>>])

\* The text of one cell before padding.
cellValue(rawValue) ==
    LET value == IF rawValue.kind \in {"null", "undef"} THEN <<>> ELSE formatNumber(rawValue)
    IN  IF Len(value) > MAX_COL_WIDTH
        THEN SubSeq(value, 1, TRUNCATED_LENGTH) \o <<".", ".", ".">>
        ELSE value

dataRow(row, headers, widths, aligns) ==
    <<BOX.vertical>> \o Concat([i \in 1..Len(headers) |->
        <<" ">> \o padCell(cellValue(Get(row, headers[i])), widths[i], aligns[i])
        \o <<" ", BOX.vertical>>])

\* `${n} rows (showing first 100)` or `${n} row${n === 1 ? '' : 's'}`
rowCountTextAlwaysPlural(n) ==
    IF n > MAX_ROWS
    THEN Digits(n) \o <<" ", "r", "o", "w", "s", " ", "(", "s", "h", "o", "w", "i", "n", "g", " ", "f", "i", "r", "s", "t", " ">> \o Digits(MAX_ROWS) \o <<")">>
    ELSE Digits(n) \o <<" ", "r", "o", "w", "s">>

rowCountText(n) ==
    IF n > MAX_ROWS
    THEN Digits(n) \o <<" ", "r", "o", "w", "s", " ", "(", "s", "h", "o", "w", "i", "n", "g", " ", "f", "i", "r", "s", "t", " ">> \o Digits(MAX_ROWS) \o <<")">>
    ELSE Digits(n) \o <<" ", "r", "o", "w">> \o (IF n = 1 THEN <<>> ELSE <<"s">>)

centeredRowCount(tableWidth, n) ==
    LET padding == Max(0, (tableWidth - Len(rowCountText(n))) \div 2)
    IN  Repeat(" ", padding) \o rowCountText(n)

\* The lines of the table for an array of objects with at least one row.
tableLines(rows) ==
    LET headers == Keys(rows[1])
        widths == [i \in 1..Len(headers) |-> colWidths(rows, headers[i])]
        aligns == [i \in 1..Len(headers) |-> colAlignments(rows, headers[i])]
        shown == SubSeq(rows, 1, Min(Len(rows), MAX_ROWS))
        topBorder == Border(widths, BOX.topLeft, BOX.horizontal, BOX.topJoin, BOX.topRight)
        headerSeparator == Border(widths, BOX.headerLeftJoin, BOX.doubleHorizontal,
                                  BOX.headerCross, BOX.headerRightJoin)
        dataRows == [i \in 1..Len(shown) |-> dataRow(shown[i], headers, widths, aligns)]
        bottomBorder == Border(widths, BOX.bottomLeft, BOX.horizontal, BOX.bottomJoin,
                               BOX.bottomRight)
    IN  <<topBorder, headerRow(headers, widths), headerSeparator>> \o dataRows
        \o <<bottomBorder, centeredRowCount(Len(topBorder), Len(rows))>>

\* formatAsTable.  Object.keys(undefined), Object.keys(null) and null[header]
\* throw a TypeError.
formatAsTable(d) ==
    IF d.kind = "null" THEN Returned(NoDataAvailable)
    ELSE IF d.kind = "array" /\ d.rows = <<>> THEN Returned(NoDataAvailable)
    ELSE IF d.kind = "object" THEN Threw
    ELSE IF d.rows[1].null THEN Threw
    ELSE IF Keys(d.rows[1]) # <<>> /\ \E i \in 1..Len(d.rows) : d.rows[i].null THEN Threw
    ELSE Returned(Join(tableLines(d.rows)))

\* The characters of NEO4J_BOX.
NEO4J_BOX == [topLeft |-> "U+2554", topRight |-> "U+2557", bottomLeft |-> "U+255A",
              bottomRight |-> "U+255D", doubleHorizontal |-> "U+2550",
              doubleVertical |-> "U+2551", doubleTopJoin |-> "U+2564",
              doubleBottomJoin |-> "U+2567", doubleLeftJoin |-> "U+255F",
              doubleRightJoin |-> "U+2562", doubleCross |-> "U+256A",
              horizontal |-> "U+2500", vertical |-> "U+2502", leftJoin |-> "U+251C",
              rightJoin |-> "U+2524", cross |-> "U+253C"]

Ellipsis == "U+2026"
DefaultLabels == <<"[", ":", "N", "o", "d", "e", "]">>

\* const columns = [...]: key and header of the four columns.
columns == <<[key |-> "labels", header |-> <<"L", "a", "b", "e", "l", "s">>],
             [key |-> "name", header |-> <<"N", "a", "m", "e">>],
             [key |-> "properties", header |-> <<"P", "r", "o", "p", "e", "r", "t", "i", "e", "s">>],
             [key |-> "relationships", header |-> <<"R", "e", "l", "a", "t", "i", "o", "n", "s", "h", "i", "p", "s">>]>>

\* The fields of a node: labels and name are strings, properties and
\* relationships arrays of strings, each of them possibly null or absent.
NodeField(node, key) ==
    CASE key = "labels" -> Get(node, <<"l", "a", "b", "e", "l", "s">>)
      [] key = "name" -> Get(node, <<"n", "a", "m", "e">>)
      [] key = "properties" -> Get(node, <<"p", "r", "o", "p", "e", "r", "t", "i", "e", "s">>)
      [] OTHER -> Get(node, <<"r", "e", "l", "a", "t", "i", "o", "n", "s", "h", "i", "p", "s">>)

getNodeValue(node, key) ==
    LET v == NodeField(node, key)
    IN  IF key = "labels" THEN (IF v.kind = "str" /\ v.str # <<>> THEN v.str ELSE DefaultLabels)
        ELSE IF key = "name" THEN (IF v.kind = "str" THEN v.str ELSE <<>>)
        ELSE IF v.kind = "list" /\ Len(v.list) > 0 THEN v.list[1]
             ELSE <<>>

\* col.width after the forEach over the columns:
\* Math.max(col.header.length, ...graphNodes.map(node => value.length)) + 2
columnWidth(nodes, col) ==
    LET lengths == {Len(getNodeValue(nodes[n], col.key)) : n \in 1..Len(nodes)}
                   \cup {Len(col.header)}
    IN  (CHOOSE x \in lengths : \A y \in lengths : y <= x) + 2

padString(str, width) ==
    IF Len(str) > width
    THEN SubSeq(str, 1, Max(width - 1, 0)) \o <<Ellipsis>>
    ELSE PadEnd(str, width)

\* A line of double horizontals with a join between the columns.
graphBorder(widths, left, fill, join, right) ==
    <<left>> \o Concat([i \in 1..Len(widths) |->
                 Repeat(fill, widths[i]) \o (IF i < Len(widths) THEN <<join>> ELSE <<>>)])
    \o <<right>>

\* A line of cells: the last vertical is replaced by a double vertical.
graphCells(values, widths) ==
    LET line == <<NEO4J_BOX.doubleVertical>> \o Concat([i \in 1..Len(widths) |->
                    <<" ">> \o padString(values[i], widths[i] - 2)
                    \o <<" ", NEO4J_BOX.vertical>>])
    IN  Append(SubSeq(line, 1, Len(line) - 1), NEO4J_BOX.doubleVertical)

\* node.properties?.length || 1
LengthOrOne(v) == IF v.kind = "list" /\ Len(v.list) > 0 THEN Len(v.list) ELSE 1

maxLines(node) ==
    Max(LengthOrOne(NodeField(node, "properties")),
        LengthOrOne(NodeField(node, "relationships")))

\* The value of one cell of line lineIndex (from 0) of a node.
lineValue(node, key, lineIndex) ==
    IF lineIndex = 0 /\ key \in {"node_id", "labels", "name"} THEN getNodeValue(node, key)
    ELSE IF key \in {"properties", "relationships"} /\ NodeField(node, key).kind = "list"
         THEN LET l == NodeField(node, key).list
              IN  IF lineIndex + 1 <= Len(l) THEN l[lineIndex + 1] ELSE <<>>
    ELSE <<>>

nodeLines(node, widths) ==
    [n \in 1..maxLines(node) |->
        graphCells([i \in 1..Len(columns) |-> lineValue(node, columns[i].key, n - 1)],
                   widths)]

\* The lines of the graph table, every one followed by '\n' in the result.
graphLines(nodes) ==
    LET widths == [i \in 1..Len(columns) |-> columnWidth(nodes, columns[i])]
        top == graphBorder(widths, NEO4J_BOX.topLeft, NEO4J_BOX.doubleHorizontal,
                           NEO4J_BOX.doubleTopJoin, NEO4J_BOX.topRight)
        header == graphCells([i \in 1..Len(columns) |-> columns[i].header], widths)
        headerSeparator == graphBorder(widths, NEO4J_BOX.doubleLeftJoin,
                                       NEO4J_BOX.doubleHorizontal, NEO4J_BOX.doubleCross,
                                       NEO4J_BOX.doubleRightJoin)
        rowSeparator == graphBorder(widths, NEO4J_BOX.leftJoin, NEO4J_BOX.horizontal,
                                    NEO4J_BOX.cross, NEO4J_BOX.rightJoin)
        rows == Concat([n \in 1..Len(nodes) |->
                    nodeLines(nodes[n], widths)
                    \o (IF n < Len(nodes) THEN <<rowSeparator>> ELSE <<>>)])
        bottom == graphBorder(widths, NEO4J_BOX.bottomLeft, NEO4J_BOX.doubleHorizontal,
                              NEO4J_BOX.doubleBottomJoin, NEO4J_BOX.bottomRight)
    IN  <<top, header, headerSeparator>> \o rows
        \o <<bottom, <<>>, <<"(">> \o Digits(Len(nodes)) \o <<" ", "n", "o", "d", "e", "s", ")">>>>

formatAsRegularTable(d) ==
    IF d.kind # "array" \/ d.rows = <<>> THEN Returned(NoDataAvailable)
    ELSE formatAsTable(d)

\* formatAsGraphTable.  getNodeValue(null, key) throws a TypeError.
formatAsGraphTable(d, format) ==
    IF format # "neo4j_graph" \/ d.kind # "array" \/ d.rows = <<>>
    THEN formatAsRegularTable(d)
    ELSE IF \E i \in 1..Len(d.rows) : d.rows[i].null THEN Threw
    ELSE LET lines == graphLines(d.rows)
         IN  Returned(Concat([i \in 1..Len(lines) |-> Append(lines[i], NL)]))

\* Rows and nodes of the data arrays formatted
KeyV == <<"v">>
KeyW == <<"w">>
LongString == [i \in 1..(MAX_COL_WIDTH + 1) |-> "x"]
RowInteger == Obj(<<Field(KeyV, Num(1000000))>>)                \* {v: 1000}
RowDecimal == Obj(<<Field(KeyV, Num(1234500))>>)                \* {v: 1234.5}
RowNegative == Obj(<<Field(KeyV, Num(0 - 1234567891))>>)        \* {v: -1234567.891}
RowNearOne == Obj(<<Field(KeyV, Num(999))>>)                    \* {v: 0.999}
RowString == Obj(<<Field(KeyV, Str(<<"a", "b">>))>>)            \* {v: 'ab'}
RowNumericString == Obj(<<Field(KeyV, Str(<<"1", "2">>))>>)     \* {v: '12'}
RowNumericPrefix == Obj(<<Field(KeyV, Str(<<"1", "a">>))>>)     \* {v: '1a'}
RowLongValue == Obj(<<Field(KeyV, Str(LongString))>>)           \* {v: 'xxx...'}, 41 long
RowNull == Obj(<<Field(KeyV, Null)>>)                           \* {v: null}
RowEmpty == Obj(<<>>)                                           \* {}
RowOtherKey == Obj(<<Field(KeyW, Str(<<"a", "b">>))>>)          \* {w: 'ab'}
RowLongKey == Obj(<<Field(LongString, Str(<<"a", "b">>))>>)     \* {xxx...: 'ab'}
RowIowa == Obj(<<Field(<<"s", "t", "a", "t", "e">>, Str(<<"I", "o", "w", "a">>)), Field(<<"y", "i", "e", "l", "d">>, Num(1234500))>>)
RowOhio == Obj(<<Field(<<"s", "t", "a", "t", "e">>, Str(<<"O", "h", "i", "o">>)), Field(<<"y", "i", "e", "l", "d">>, Num(987000))>>)

RowCatalog == {RowInteger, RowDecimal, RowNegative, RowNearOne, RowString,
               RowNumericString, RowNumericPrefix, RowLongValue, RowNull, RowEmpty,
               RowOtherKey, RowLongKey, RowIowa, RowOhio, NullElement}

LongProperty == <<"a", "r", "e", "a", ":", " ", "1", "2", "0", " ", "h", "a">>
NodePlain ==
    Obj(<<Field(<<"l", "a", "b", "e", "l", "s">>, Str(<<":", "C", "r", "o", "p">>)), Field(<<"n", "a", "m", "e">>, Str(<<"C", "o", "r", "n">>)),
          Field(<<"p", "r", "o", "p", "e", "r", "t", "i", "e", "s">>, List(<<<<"p">>>>)),
          Field(<<"r", "e", "l", "a", "t", "i", "o", "n", "s", "h", "i", "p", "s">>, List(<<<<"r">>>>))>>)
NodeMulti ==
    Obj(<<Field(<<"l", "a", "b", "e", "l", "s">>, Str(<<":", "C", "r", "o", "p">>)), Field(<<"n", "a", "m", "e">>, Str(<<"C", "o", "r", "n">>)),
          Field(<<"p", "r", "o", "p", "e", "r", "t", "i", "e", "s">>, List(<<<<"p">>, LongProperty>>)),
          Field(<<"r", "e", "l", "a", "t", "i", "o", "n", "s", "h", "i", "p", "s">>, List(<<<<"r">>, <<"s">>, <<"t">>>>))>>)
NodeNoArrays ==
    Obj(<<Field(<<"l", "a", "b", "e", "l", "s">>, Str(<<":", "C", "r", "o", "p">>)), Field(<<"n", "a", "m", "e">>, Null),
          Field(<<"p", "r", "o", "p", "e", "r", "t", "i", "e", "s">>, Null), Field(<<"r", "e", "l", "a", "t", "i", "o", "n", "s", "h", "i", "p", "s">>, List(<<>>))>>)

NodeCatalog == {NodePlain, NodeMulti, NodeNoArrays, RowEmpty, NullElement}

ManyRows(n) == Array([i \in 1..n |-> RowString])

Datas ==
    {Array(rs) : rs \in UNION {[1..n -> RowCatalog] : n \in 0..MaxRows}}
    \cup {Array(ns) : ns \in UNION {[1..n -> NodeCatalog] : n \in 0..MaxRows}}
    \cup {ManyRows(MAX_ROWS), ManyRows(MAX_ROWS + 1), ManyRows(150)}
    \cup {NullData, NoArray}

InitFormatCall ==
    /\ tableData \in Datas
    /\ display_format \in {"table", "neo4j_graph"}
    /\ result = [threw |-> FALSE, out |-> <<>>]
    /\ formatPc = "call"

CallFormatAsTable ==
    /\ formatPc = "call"
    /\ result' = formatAsTable(tableData)
    /\ formatPc' = "table"
    /\ UNCHANGED <<tableData, display_format>>

CallFormatAsGraphTable ==
    /\ formatPc = "call"
    /\ result' = formatAsGraphTable(tableData, display_format)
    /\ formatPc' = "graph"
    /\ UNCHANGED <<tableData, display_format>>

InitFormat == InitHook /\ InitStreamIdle /\ InitParseIdle /\ InitFormatCall /\ InitRenderIdle

NextFormat ==
    \/ CallFormatAsTable /\ UNCHANGED <<hookVars, streamVars, parseVars, renderVars>>
    \/ CallFormatAsGraphTable /\ UNCHANGED <<hookVars, streamVars, parseVars, renderVars>>

SpecFormat == InitFormat /\ [][NextFormat]_vars
----------------------------------------------------------------------------
(* StreamingText: formatText and the interval of the hook (part_000, useTypewriter.ts) *)

\* JSON values: a number (integers only), a string (no escapes), true, false
\* or null, an array, or an object as its members in order.  Texts with
\* fractions, exponents, escapes, repeated keys or keys that are integers do
\* not occur in the inputs.
JNumber(negative, digits) ==
    [kind |-> "number", text |-> (IF negative THEN <<"-">> ELSE <<>>) \o digits, items |-> <<>>]
JString(chars) == [kind |-> "string", text |-> chars, items |-> <<>>]
JLiteral(word) == [kind |-> "literal", text |-> word, items |-> <<>>]
JArray(items) == [kind |-> "array", text |-> <<>>, items |-> items]
JObject(members) == [kind |-> "object", text |-> <<>>, items |-> members]
JMember(key, value) == [key |-> key, value |-> value]

SyntaxError == [ok |-> FALSE, value |-> JLiteral(<<>>), next |-> 0]
Parsed(value, next) == [ok |-> TRUE, value |-> value, next |-> next]

\* The first position from i on that holds no JSON white space.
SkipWhitespace(s, i) ==
    LET inked == {j \in i..Len(s) : s[j] \notin Whitespace}
    IN  IF inked = {} THEN Len(s) + 1 ELSE CHOOSE j \in inked : \A k \in inked : j <= k

CharAt(s, i) == IF i \in 1..Len(s) THEN s[i] ELSE ""
IsDigit(c) == \E d \in 1..10 : DigitChars[d] = c
HasAt(s, i, word) == SubSeq(s, i, Min(i + Len(word) - 1, Len(s))) = word

ParseJsonNumber(s, i) ==
    LET negative == CharAt(s, i) = "-"
        first == IF negative THEN i + 1 ELSE i
        others == {j \in first..Len(s) : ~IsDigit(s[j])}
        end == IF others = {} THEN Len(s) + 1 ELSE CHOOSE j \in others : \A k \in others : j <= k
    IN  IF ~IsDigit(CharAt(s, first)) THEN SyntaxError
        ELSE IF s[first] = "0" THEN Parsed(JNumber(negative, <<"0">>), first + 1)
        ELSE Parsed(JNumber(negative, SubSeq(s, first, end - 1)), end)

ParseJsonString(s, i) ==
    LET quotes == {j \in (i + 1)..Len(s) : s[j] = "\""}
        close == CHOOSE j \in quotes : \A k \in quotes : j <= k
    IN  IF CharAt(s, i) # "\"" \/ quotes = {} THEN SyntaxError
        ELSE IF \E j \in (i + 1)..(close - 1) : s[j] \in {"\\", NL, "\t", "\r"} THEN SyntaxError
        ELSE Parsed(JString(SubSeq(s, i + 1, close - 1)), close + 1)

RECURSIVE ParseJsonValue(_, _)
RECURSIVE ParseJsonElements(_, _, _)
RECURSIVE ParseJsonMembers(_, _, _)

\* The value that starts at position i.
ParseJsonValue(s, i) ==
    LET c == CharAt(s, i)
    IN  IF c = "\"" THEN ParseJsonString(s, i)
        ELSE IF c = "-" \/ IsDigit(c) THEN ParseJsonNumber(s, i)
        ELSE IF HasAt(s, i, <<"t", "r", "u", "e">>) THEN Parsed(JLiteral(<<"t", "r", "u", "e">>), i + 4)
        ELSE IF HasAt(s, i, <<"f", "a", "l", "s", "e">>) THEN Parsed(JLiteral(<<"f", "a", "l", "s", "e">>), i + 5)
        ELSE IF HasAt(s, i, <<"n", "u", "l", "l">>) THEN Parsed(JLiteral(<<"n", "u", "l", "l">>), i + 4)
        ELSE IF c = "["
        THEN LET j == SkipWhitespace(s, i + 1)
             IN  IF CharAt(s, j) = "]" THEN Parsed(JArray(<<>>), j + 1)
                 ELSE ParseJsonElements(s, j, <<>>)
        ELSE IF c = "{"
        THEN LET j == SkipWhitespace(s, i + 1)
             IN  IF CharAt(s, j) = "}" THEN Parsed(JObject(<<>>), j + 1)
                 ELSE ParseJsonMembers(s, j, <<>>)
        ELSE SyntaxError

\* The elements of an array from position i, after those in acc.
ParseJsonElements(s, i, acc) ==
    LET v == ParseJsonValue(s, i)
        j == SkipWhitespace(s, v.next)
    IN  IF ~v.ok THEN SyntaxError
        ELSE IF CharAt(s, j) = "]" THEN Parsed(JArray(Append(acc, v.value)), j + 1)
        ELSE IF CharAt(s, j) = ","
        THEN ParseJsonElements(s, SkipWhitespace(s, j + 1), Append(acc, v.value))
        ELSE SyntaxError

\* The members of an object from position i, after those in acc.
ParseJsonMembers(s, i, acc) ==
    LET k == ParseJsonString(s, i)
        colon == SkipWhitespace(s, k.next)
        v == ParseJsonValue(s, SkipWhitespace(s, colon + 1))
        j == SkipWhitespace(s, v.next)
        members == Append(acc, JMember(k.value.text, v.value))
    IN  IF ~k.ok \/ CharAt(s, colon) # ":" THEN SyntaxError
        ELSE IF ~v.ok THEN SyntaxError
        ELSE IF CharAt(s, j) = "}" THEN Parsed(JObject(members), j + 1)
        ELSE IF CharAt(s, j) = "," THEN ParseJsonMembers(s, SkipWhitespace(s, j + 1), members)
        ELSE SyntaxError

\* JSON.parse(text): one value with nothing but white space around it.
JSONParseText(s) ==
    LET v == ParseJsonValue(s, SkipWhitespace(s, 1))
    IN  IF v.ok /\ SkipWhitespace(s, v.next) = Len(s) + 1 THEN v ELSE SyntaxError

\* JSON.stringify(value, null, 2), the value at the given depth of nesting.
RECURSIVE JSONStringify(_, _)
JSONStringify(v, depth) ==
    LET indent(n) == Repeat(" ", 2 * n)
        item(i) == IF v.kind = "array"
                   THEN JSONStringify(v.items[i], depth + 1)
                   ELSE <<"\"">> \o v.items[i].key \o <<"\"", ":", " ">>
                        \o JSONStringify(v.items[i].value, depth + 1)
        line(i) == indent(depth + 1) \o item(i)
                   \o (IF i < Len(v.items) THEN <<",">> ELSE <<>>) \o <<NL>>
        open == IF v.kind = "array" THEN "[" ELSE "{"
        close == IF v.kind = "array" THEN "]" ELSE "}"
    IN  CASE v.kind = "number" -> (IF v.text = <<"-", "0">> THEN <<"0">> ELSE v.text)
          [] v.kind = "string" -> <<"\"">> \o v.text \o <<"\"">>
          [] v.kind = "literal" -> v.text
          [] OTHER -> IF v.items = <<>> THEN <<open, close>>
                      ELSE <<open, NL>> \o Concat([i \in 1..Len(v.items) |-> line(i)])
                           \o indent(depth) \o <<close>>

\* One element of what formatText returns.
Element(tag, className, children) == [tag |-> tag, className |-> className, children |-> children]

\* The element a section is rendered as; a graph table is formatted from rawData.
sectionElement(section, fmt, raw) ==
    IF section.type = "analysis"
    THEN Returned(Element("div", "analysis-section", Split(section.content)))
    ELSE IF section.type \in {"table", "graph-table"}
    THEN IF (section.type = "graph-table" \/ fmt = "neo4j_graph") /\ raw.kind # "null"
         THEN LET graphTable == formatAsGraphTable(raw, fmt)
              IN  IF graphTable.threw THEN Threw
                  ELSE Returned(Element("pre", "ascii-table", <<graphTable.out>>))
         ELSE Returned(Element("pre", "ascii-table", <<section.content>>))
    ELSE IF section.type \in {"table-header", "graph-table-header"}
    THEN Returned(Element("div", "analysis-section font-semibold", <<section.content>>))
    ELSE Returned(Element("div", "analysis-section", Split(section.content)))

View(kind, parsed, threw, elements) ==
    [kind |-> kind, parsed |-> parsed, threw |-> threw, elements |-> elements]

\* formatText that looks for sections before it tries JSON.
formatTextSectionsFirst(t, fmt, raw) ==
    LET json == JSONParseText(t)
        secs == parseContentSections(t, fmt)
        elements == [i \in 1..Len(secs) |-> sectionElement(secs[i], fmt, raw)]
    IN  IF isStructuredContent(t) \/ ~json.ok
        THEN IF Len(secs) > 0
             THEN IF \E i \in 1..Len(elements) : elements[i].threw
                  THEN View("sections", TRUE, TRUE, <<>>)
                  ELSE View("sections", TRUE, FALSE, [i \in 1..Len(elements) |-> elements[i].out])
             ELSE View("plain", TRUE, FALSE, <<Element("div", "prose", Split(t))>>)
        ELSE View("json", FALSE, FALSE,
                  <<Element("pre", "whitespace-pre-wrap", <<JSONStringify(json.value, 0)>>)>>)

\* formatText(text): parsed tells whether parseContentSections was called.
formatText(t, fmt, raw) ==
    LET json == JSONParseText(t)
        secs == parseContentSections(t, fmt)
        elements == [i \in 1..Len(secs) |-> sectionElement(secs[i], fmt, raw)]
    IN  IF json.ok
        THEN View("json", FALSE, FALSE,
                  <<Element("pre", "whitespace-pre-wrap", <<JSONStringify(json.value, 0)>>)>>)
        ELSE IF Len(secs) > 0
             THEN IF \E i \in 1..Len(elements) : elements[i].threw
                  THEN View("sections", TRUE, TRUE, <<>>)
                  ELSE View("sections", TRUE, FALSE, [i \in 1..Len(elements) |-> elements[i].out])
             ELSE View("plain", TRUE, FALSE, <<Element("div", "prose", Split(t))>>)

\* const { speed = 30 } = options: the option when it is not given.
DEFAULT_SPEED == 30
MIN_SPEED == 1
MAX_SPEED == 1000

Given(ms) == [given |-> TRUE, ms |-> ms]
NotGiven == [given |-> FALSE, ms |-> 0]

\* const safeSpeed = Math.max(1, Math.min(1000, speed || 30))
SafeSpeed(option) ==
    LET withDefault == IF option.given THEN option.ms ELSE DEFAULT_SPEED
        truthy == IF withDefault # 0 THEN withDefault ELSE DEFAULT_SPEED
    IN  Max(MIN_SPEED, Min(MAX_SPEED, truthy))

\* Texts given to formatText
JsonNumber == <<"4", "2">>
JsonPadded == <<" ", "7", NL>>
JsonNegativeZero == <<"-", "0">>
JsonTrue == <<"t", "r", "u", "e">>
JsonNull == <<"n", "u", "l", "l">>
JsonMarkerString == <<"\"", "=", "=", "=", " ", "A", "N", "A", "L", "Y", "S", "I", "S", " ", "=", "=", "=", "\"">>
JsonEmptyObject == <<"{", "}">>
JsonEmptyArray == <<"[", " ", "]">>
JsonObject == <<"{", "\"", "a", "\"", ":", "1", ",", "\"", "b", "\"", ":", "[", "t", "r", "u", "e", ",", "\"", "x", "\"", "]", "}">>
JsonSpread == <<"{", NL, "\"", "t", "\"", ":", " ", "\"", "=", "=", "=", " ", "D", "A", "T", "A", " ", "T", "A", "B", "L", "E", " ", "=", "=", "=", "\"", NL, "}">>
JsonArray == <<"[", "1", ",", "[", "2", "]", ",", "{", "}", "]">>
NotJsonTrailing == <<"4", "2", " ", "r", "o", "w", "s">>
NotJsonOpen == <<"{", "\"", "a", "\"", ":", "1">>
NotJsonLeadingZero == <<"0", "1">>
NotJsonComma == <<"[", "1", ",", "]">>
NotJsonBareWord == <<"y", "e", "s">>
NotJsonMarkerThenJson == <<"=", "=", "=", " ", "A", "N", "A", "L", "Y", "S", "I", "S", " ", "=", "=", "=", NL, "{", "\"", "a", "\"", ":", "1", "}">>

JsonTexts ==
    {JsonNumber, JsonPadded, JsonNegativeZero, JsonTrue, JsonNull, JsonMarkerString,
     JsonEmptyObject, JsonEmptyArray, JsonObject, JsonSpread, JsonArray}
NotJsonTexts ==
    {NotJsonTrailing, NotJsonOpen, NotJsonLeadingZero, NotJsonComma, NotJsonBareWord,
     NotJsonMarkerThenJson}
RenderLineCatalog == {MarkerAnalysis, MarkerGraphData, GlyphLine, PlainLine}
SectionTexts ==
    {Join(ls) : ls \in UNION {[1..n -> RenderLineCatalog] : n \in 0..MaxRenderLines}}
RenderTexts == JsonTexts \cup NotJsonTexts \cup SectionTexts

Speeds == {NotGiven, Given(0), Given(0 - 5), Given(1), Given(30), Given(250),
           Given(1000), Given(1001), Given(5000)}

InitRenderProps ==
    /\ renderText \in RenderTexts
    /\ rawData \in {NullData, Array(<<NodePlain>>), Array(<<NullElement>>)}
    /\ renderFormat \in {"table", "neo4j_graph"}
    /\ speed \in Speeds
    /\ safeSpeed = 0
    /\ view = View("none", FALSE, FALSE, <<>>)
    /\ renderPc = "props"

\* const typewriterResult = useTypewriter(content, { speed, onComplete })
CallUseTypewriter ==
    /\ renderPc = "props"
    /\ safeSpeed' = SafeSpeed(speed)
    /\ renderPc' = "hook"
    /\ UNCHANGED <<renderText, rawData, renderFormat, speed, view>>

\* {formatText(displayText)}
CallFormatText ==
    /\ renderPc = "hook"
    /\ view' = formatText(renderText, renderFormat, rawData)
    /\ renderPc' = "rendered"
    /\ UNCHANGED <<renderText, rawData, renderFormat, speed, safeSpeed>>

InitRender == InitHook /\ InitStreamIdle /\ InitParseIdle /\ InitFormatIdle /\ InitRenderProps

NextRender ==
    \/ CallUseTypewriter /\ UNCHANGED <<hookVars, streamVars, parseVars, formatVars>>
    \/ CallFormatText /\ UNCHANGED <<hookVars, streamVars, parseVars, formatVars>>

SpecRender == InitRender /\ [][NextRender]_vars

----------------------------------------------------------------------------
(* Properties of a render of StreamingText, checked under SpecRender *)

\* JSON.stringify(JSON.parse(t), null, 2) for the JSON documents rendered.
PrettyPrinted(t) ==
    CASE t = JsonNumber ->
            <<"4", "2">>
      [] t = JsonPadded ->
            <<"7">>
      [] t = JsonNegativeZero ->
            <<"0">>
      [] t = JsonTrue ->
            <<"t", "r", "u", "e">>
      [] t = JsonNull ->
            <<"n", "u", "l", "l">>
      [] t = JsonMarkerString ->
            <<"\"", "=", "=", "=", " ", "A", "N", "A", "L", "Y", "S", "I", "S", " ", "=", "=", "=", "\"">>
      [] t = JsonEmptyObject ->
            <<"{", "}">>
      [] t = JsonEmptyArray ->
            <<"[", "]">>
      [] t = JsonObject ->
            <<"{", NL, " ", " ", "\"", "a", "\"", ":", " ", "1", ",", NL, " ", " ", "\"", "b", "\"", ":", " ", "[", NL, " ", " ", " ", " ", "t", "r", "u", "e", ",", NL, " ", " ", " ", " ", "\"", "x", "\"", NL, " ", " ", "]", NL, "}">>
      [] t = JsonSpread ->
            <<"{", NL, " ", " ", "\"", "t", "\"", ":", " ", "\"", "=", "=", "=", " ", "D", "A", "T", "A", " ", "T", "A", "B", "L", "E", " ", "=", "=", "=", "\"", NL, "}">>
      [] t = JsonArray ->
            <<"[", NL, " ", " ", "1", ",", NL, " ", " ", "[", NL, " ", " ", " ", " ", "2", NL, " ", " ", "]", ",", NL, " ", " ", "{", "}", NL, "]">>
      [] OTHER -> <<>>

\* C31: a text that is one JSON document is rendered as its pretty-printed
\* JSON alone, without a call of the section parser, also when it contains
\* the text of a section marker; the section parser is called exactly when
\* the text is not a JSON document.
C31_JsonPrecedence ==
    renderPc = "rendered" =>
        /\ renderText \in JsonTexts =>
               /\ view.kind = "json"
               /\ ~view.parsed
               /\ ~view.threw
               /\ Len(view.elements) = 1
               /\ view.elements[1].tag = "pre"
               /\ view.elements[1].children = <<PrettyPrinted(renderText)>>
        /\ renderText \notin JsonTexts => (view.kind # "json" /\ view.parsed)

\* A JSON document that holds the text of a marker was rendered.
C31_Witness ==
    /\ renderPc = "rendered"
    /\ renderText \in {JsonMarkerString, JsonSpread}
    /\ Includes(renderText, MarkerAnalysis) \/ Includes(renderText, MarkerDataTable)
    /\ view.kind = "json"

\* C33: the interval of the tick is the speed clamped to 1..1000 for every
\* speed given, 0 and negative speeds and speeds above 1000 included, and 30
\* when no speed is given.
C33_TickCadence ==
    renderPc \in {"hook", "rendered"} =>
        safeSpeed = (IF ~speed.given THEN 30
                     ELSE IF speed.ms < 1 THEN 1
                     ELSE IF speed.ms > 1000 THEN 1000
                     ELSE speed.ms)

----------------------------------------------------------------------------
(* Properties of the table formatters, checked under SpecFormat *)

\* formatAsTable has returned for an array of n >= 1 objects.
TableFormatted ==
    /\ formatPc = "table"
    /\ tableData.kind = "array"
    /\ tableData.rows # <<>>
    /\ \A i \in 1..Len(tableData.rows) : ~tableData.rows[i].null

RowCount == Len(tableData.rows)

\* The column widths read off a border line: the runs of fill, less the two
\* characters of padding.
BorderWidths(line, fill) ==
    LET cuts == {i \in 1..Len(line) : line[i] # fill}
        cut(k) == CHOOSE i \in cuts : Cardinality({j \in cuts : j < i}) = k - 1
    IN  [k \in 1..(Cardinality(cuts) - 1) |-> cut(k + 1) - cut(k) - 3]

\* The text between the padding spaces of cell k of a line.
RECURSIVE CellStart(_, _)
CellStart(widths, k) == IF k = 1 THEN 3 ELSE CellStart(widths, k - 1) + widths[k - 1] + 3
ObservedCell(line, widths, k) ==
    SubSeq(line, CellStart(widths, k), CellStart(widths, k) + widths[k] - 1)

\* C21: for n >= 1 rows the output has exactly min(n, 100) body lines between
\* the header separator and the bottom border, and the footer reads
\* "<n> rows (showing first 100)" when n > 100, "1 row" when n = 1 and
\* "<n> rows" otherwise.
C21_RowCapAndFooter ==
    TableFormatted =>
        LET n == RowCount
            lines == Split(result.out)
            footer == TrimStart(lines[Len(lines)])
        IN  /\ ~result.threw
            /\ Len(lines) = (IF n < 100 THEN n ELSE 100) + 5
            /\ lines[3][1] = BOX.headerLeftJoin
            /\ \A r \in 1..(Len(lines) - 5) : lines[3 + r][1] = BOX.vertical
            /\ lines[Len(lines) - 1][1] = BOX.bottomLeft
            /\ n > 100 => footer = Digits(n) \o <<" ", "r", "o", "w", "s", " ", "(", "s", "h", "o", "w", "i", "n", "g", " ", "f", "i", "r", "s", "t", " ", "1", "0", "0", ")">>
            /\ n = 150 => footer = <<"1", "5", "0", " ", "r", "o", "w", "s", " ", "(", "s", "h", "o", "w", "i", "n", "g", " ", "f", "i", "r", "s", "t", " ", "1", "0", "0", ")">>
            /\ n = 1 => footer = <<"1", " ", "r", "o", "w">>
            /\ (n > 1 /\ n <= 100) => footer = Digits(n) \o <<" ", "r", "o", "w", "s">>

\* 150 rows were formatted.
C21_Witness == TableFormatted /\ RowCount = 150 /\ ~result.threw

\* What a cell shows, by the claims: nothing for null and undefined, else the
\* formatted value cut to 40 characters.
ShownLength(rawValue) ==
    IF rawValue.kind \in {"null", "undef"} THEN 0
    ELSE Min(Len(formatNumber(rawValue)), 40)

\* C22: the width of every column is min(40, max(header length, length of
\* each cell as it is rendered)), a null or undefined cell counting as 0.
C22_ColumnWidth ==
    TableFormatted =>
        LET headers == Keys(tableData.rows[1])
            longest(h) == CHOOSE m \in {Len(h)} \cup {ShownLength(Get(tableData.rows[i], h)) :
                                                      i \in 1..RowCount} :
                              /\ m >= Len(h)
                              /\ \A i \in 1..RowCount : m >= ShownLength(Get(tableData.rows[i], h))
            widths == BorderWidths(Split(result.out)[1], BOX.horizontal)
        IN  /\ Len(widths) = Len(headers)
            /\ \A k \in 1..Len(headers) : widths[k] = Min(40, longest(headers[k]))


\* A cell without the spaces that pad it.
Unpadded(cell) ==
    LET inked == {i \in 1..Len(cell) : cell[i] # " "}
    IN  IF inked = {} THEN <<>>
        ELSE SubSeq(cell, CHOOSE i \in inked : \A j \in inked : i <= j,
                          CHOOSE i \in inked : \A j \in inked : i >= j)

\* The rows that are rendered.
ShownRows == IF RowCount < 100 THEN RowCount ELSE 100

\* A header line or body line made of the given cells.
LineOf(cells) ==
    <<BOX.vertical>> \o Concat([k \in 1..Len(cells) |->
                            <<" ">> \o cells[k] \o <<" ", BOX.vertical>>])

\* A string that is a decimal number as a whole.
IsNumberText(s) ==
    LET t == Trim(s)
        u == IF t # <<>> /\ Head(t) \in {"+", "-"} THEN Tail(t) ELSE t
        digits == {i \in 1..Len(u) : \E d \in 1..10 : DigitChars[d] = u[i]}
        points == {i \in 1..Len(u) : u[i] = "."}
    IN  /\ digits # {}
        /\ Cardinality(points) <= 1
        /\ digits \cup points = 1..Len(u)

IsNumericValue(v) == v.kind = "num" \/ (v.kind = "str" /\ IsNumberText(v.str))

\* C23: the body cells of a column are right-justified if and only if every
\* non-null value of the column is a number or a string that is a number, and
\* left-justified otherwise; header cells are left-justified. The rows
\* {state: "Iowa", yield: 1234.5}, {state: "Ohio", yield: 987} give two data
\* lines with state to the left, yield to the right, and the footer "2 rows".
C23_ColumnAlignment ==
    TableFormatted =>
        LET headers == Keys(tableData.rows[1])
            lines == Split(result.out)
            widths == BorderWidths(lines[1], BOX.horizontal)
            right(h) == \A i \in 1..RowCount :
                            LET v == Get(tableData.rows[i], h)
                            IN  v.kind \in {"null", "undef"} \/ IsNumericValue(v)
            cell(r, k) == LET shown == cellValue(Get(tableData.rows[r], headers[k]))
                          IN  IF right(headers[k]) THEN PadStart(shown, widths[k])
                                                   ELSE PadEnd(shown, widths[k])
        IN  /\ lines[2] = LineOf([k \in 1..Len(headers) |-> PadEnd(headers[k], widths[k])])
            /\ \A r \in 1..ShownRows :
                   lines[3 + r] = LineOf([k \in 1..Len(headers) |-> cell(r, k)])
            /\ tableData.rows = <<RowIowa, RowOhio>> =>
                   /\ lines[4] = <<BOX.vertical>> \o <<" ", "I", "o", "w", "a", " ", " ">> \o <<BOX.vertical>>
                                 \o <<" ", "1", ",", "2", "3", "4", ".", "5", "0", " ">> \o <<BOX.vertical>>
                   /\ lines[5] = <<BOX.vertical>> \o <<" ", "O", "h", "i", "o", " ", " ">> \o <<BOX.vertical>>
                                 \o <<" ", " ", " ", " ", " ", " ", "9", "8", "7", " ">> \o <<BOX.vertical>>
                   /\ TrimStart(lines[7]) = <<"2", " ", "r", "o", "w", "s">>

\* C24: neither formatter throws: for empty input, a payload that is not an
\* array or an array with a null element or a node lacking fields they return
\* a result, the text "No data available" when there is nothing to show.
C24_NeverThrows ==
    formatPc \in {"table", "graph"} =>
        /\ ~result.threw
        /\ (tableData.kind # "array" \/ tableData.rows = <<>>) => result.out = NoDataAvailable

DigitValue(c) == (CHOOSE d \in 1..10 : DigitChars[d] = c) - 1
IsDigitText(s) == \A i \in 1..Len(s) : \E d \in 1..10 : DigitChars[d] = s[i]

RECURSIVE NumberOf(_)
NumberOf(ds) ==
    IF ds = <<>> THEN 0
    ELSE NumberOf(SubSeq(ds, 1, Len(ds) - 1)) * 10 + DigitValue(ds[Len(ds)])

\* s is a natural number written with a comma before every group of three digits.
GroupedNumber(s, n) ==
    LET plain == SelectSeq(s, LAMBDA c : c # ",")
    IN  /\ s # <<>>
        /\ s[1] # ","
        /\ \A i \in 1..Len(s) : (s[i] = ",") <=> ((Len(s) - i + 1) % 4 = 0)
        /\ IsDigitText(plain)
        /\ (Len(plain) > 1 => plain[1] # "0")
        /\ NumberOf(plain) = n

Unsigned(s, m) == IF m < 0 THEN Tail(s) ELSE s
SignOk(s, m) == s # <<>> /\ (m < 0 <=> s[1] = "-")

\* C28: an integer is rendered with thousands separators and no decimal point
\* (1000 as "1,000"), a non-integer with thousands separators and exactly two
\* decimal digits (1234.5 as "1,234.50"); null and undefined are rendered as
\* the empty string.
C28_NumericFormatting ==
    TableFormatted =>
        LET lines == Split(result.out)
            widths == BorderWidths(lines[1], BOX.horizontal)
            first == tableData.rows[1].entries
        IN  \A r \in 1..ShownRows : \A k \in 1..Len(first) :
                LET raw == Get(tableData.rows[r], first[k].key)
                    shown == Unpadded(ObservedCell(lines[3 + r], widths, k))
                    m == raw.num
                    u == Unsigned(shown, m)
                IN  /\ raw.kind \in {"null", "undef"} => shown = <<>>
                    /\ (raw.kind = "num" /\ m % 1000 = 0) =>
                           (SignOk(shown, m) /\ GroupedNumber(u, Abs(m) \div 1000))
                    /\ (raw.kind = "num" /\ m % 1000 # 0) =>
                           /\ SignOk(shown, m)
                           /\ Len(u) >= 4
                           /\ u[Len(u) - 2] = "."
                           /\ IsDigitText(SubSeq(u, Len(u) - 1, Len(u)))
                           /\ \E h \in {(Abs(m) \div 10), (Abs(m) \div 10) + 1} :
                                  /\ 10 * h - Abs(m) \in (0 - 5)..5
                                  /\ GroupedNumber(SubSeq(u, 1, Len(u) - 3), h \div 100)
                                  /\ NumberOf(SubSeq(u, Len(u) - 1, Len(u))) = h % 100
                    /\ raw = Num(1000000) => shown = <<"1", ",", "0", "0", "0">>
                    /\ raw = Num(1234500) => shown = <<"1", ",", "2", "3", "4", ".", "5", "0">>

\* A null, a negative non-integer and 1000 were rendered in one table.
C28_Witness ==
    /\ TableFormatted
    /\ ~result.threw
    /\ tableData.rows = <<RowNegative, RowNull>>

\* C30: the columns are the keys of the first row, in that row's key order; a
\* later row that lacks one of the keys has an empty cell there, and a key
\* that only later rows have is not rendered.
C30_ColumnsOfFirstRow ==
    TableFormatted =>
        LET first == tableData.rows[1].entries
            lines == Split(result.out)
            widths == BorderWidths(lines[1], BOX.horizontal)
        IN  /\ ~result.threw
            /\ Len(widths) = Len(first)
            /\ lines[2] = LineOf([k \in 1..Len(first) |-> PadEnd(first[k].key, widths[k])])
            /\ \A r \in 1..ShownRows : \A k \in 1..Len(first) :
                   (\A i \in 1..Len(tableData.rows[r].entries) :
                        tableData.rows[r].entries[i].key # first[k].key)
                   => Unpadded(ObservedCell(lines[3 + r], widths, k)) = <<>>

\* The second row lacks a key of the first and has a key of its own.
C30_Witness ==
    /\ TableFormatted
    /\ ~result.threw
    /\ tableData.rows = <<RowIowa, RowOtherKey>>


\* formatAsGraphTable has laid out a non-empty array of nodes as a graph table.
GraphFormatted ==
    /\ formatPc = "graph"
    /\ display_format = "neo4j_graph"
    /\ tableData.kind = "array"
    /\ tableData.rows # <<>>
    /\ \A i \in 1..Len(tableData.rows) : ~tableData.rows[i].null

\* What a node has to show in a column: its labels, its name, or every entry
\* of its properties or relationships.
EntriesOf(node, key) ==
    LET v == NodeField(node, key)
    IN  IF v.kind = "list" THEN v.list ELSE <<>>

ShownValues(node, key) ==
    IF key \in {"properties", "relationships"}
    THEN {EntriesOf(node, key)[i] : i \in 1..Len(EntriesOf(node, key))}
    ELSE {getNodeValue(node, key)}

\* C25: the width of each of the four graph columns is the longest of its
\* header and of every value shown in it over all nodes and all their lines,
\* every entry of properties and relationships included, plus 2; no entry is
\* truncated.
C25_GraphColumnWidths ==
    GraphFormatted =>
        LET nodes == tableData.rows
            lines == Split(result.out)
            inner == BorderWidths(lines[1], NEO4J_BOX.doubleHorizontal)
            lengths(k) == {Len(columns[k].header)}
                          \cup UNION {{Len(x) : x \in ShownValues(nodes[n], columns[k].key)} :
                                      n \in 1..Len(nodes)}
        IN  /\ ~result.threw
            /\ Len(inner) = Len(columns)
            /\ \A k \in 1..Len(columns) :
                   inner[k] + 2 = (CHOOSE x \in lengths(k) : \A y \in lengths(k) : y <= x) + 2
            /\ \A i \in 1..Len(lines) : \A j \in 1..Len(lines[i]) : lines[i][j] # Ellipsis

\* max(|properties|, |relationships|, 1)
BlockLines(node) ==
    Max(Max(Len(EntriesOf(node, "properties")), Len(EntriesOf(node, "relationships"))), 1)

\* The line on which the block of node n starts when every block before it
\* has its lines and a separator: the three lines of the head come first.
BlockStart(nodes, n) ==
    4 + Cardinality(UNION {{<<j, l>> : l \in 1..(BlockLines(nodes[j]) + 1)} :
                           j \in 1..(n - 1)})

\* C26: a node is rendered as max(|properties|, |relationships|, 1) lines;
\* only the first of them carries the labels and the name, and line i shows
\* properties[i] and relationships[i], blank once the sequence is exhausted.
C26_GraphNodeBlocks ==
    GraphFormatted =>
        LET nodes == tableData.rows
            lines == Split(result.out)
            inner == BorderWidths(lines[1], NEO4J_BOX.doubleHorizontal)
            entry(n, key, i) == IF i <= Len(EntriesOf(nodes[n], key))
                                THEN EntriesOf(nodes[n], key)[i] ELSE <<>>
            expected(n, i) ==
                <<IF i = 1 THEN getNodeValue(nodes[n], "labels") ELSE <<>>,
                  IF i = 1 THEN getNodeValue(nodes[n], "name") ELSE <<>>,
                  entry(n, "properties", i),
                  entry(n, "relationships", i)>>
        IN  /\ ~result.threw
            /\ Len(lines) = BlockStart(nodes, Len(nodes)) + BlockLines(nodes[Len(nodes)]) + 3
            /\ \A n \in 1..Len(nodes) :
                   LET start == BlockStart(nodes, n)
                       after == lines[start + BlockLines(nodes[n])]
                   IN  /\ \A i \in 1..BlockLines(nodes[n]) :
                              /\ lines[start + i - 1][1] = NEO4J_BOX.doubleVertical
                              /\ \A k \in 1..Len(columns) :
                                     ObservedCell(lines[start + i - 1], inner, k)
                                         = PadEnd(expected(n, i)[k], inner[k])
                       /\ after[1] = (IF n < Len(nodes) THEN NEO4J_BOX.leftJoin
                                                         ELSE NEO4J_BOX.bottomLeft)

\* C27: formatAsGraphTable returns what formatAsTable returns whenever the
\* format is not neo4j_graph or the data is empty or not an array; the graph
\* layout is produced only for a non-empty array with format neo4j_graph.
C27_GraphDelegation ==
    formatPc = "graph" =>
        LET graph == /\ display_format = "neo4j_graph"
                     /\ tableData.kind = "array"
                     /\ tableData.rows # <<>>
        IN  /\ ~graph => result = formatAsTable(tableData)
            /\ (~result.threw /\ result.out # <<>> /\ result.out[1] = NEO4J_BOX.topLeft) => graph

\* C37: for a non-empty array of rows every line from the top border through
\* the bottom border (the borders, the header row, the header separator and
\* the body rows) has the same length, also when a header is longer than 40
\* characters or a cell is truncated.
C37_RectangularTable ==
    TableFormatted =>
        LET lines == Split(result.out)
        IN  /\ ~result.threw
            /\ \A i \in 1..(Len(lines) - 1) : Len(lines[i]) = Len(lines[1])

----------------------------------------------------------------------------
(* Properties of the reveal engine, checked under SpecReveal *)

IsPrefix(p, s) == StartsWith(s, p)

\* The latest target continues the one before it.
Continued == prevText # <<>> /\ text # prevText /\ StartsWith(text, prevText)

\* C1: a non-empty target (not longer than MAX_INSTANT_CHARS, so that every
\* character is typed) set once and never changed is revealed in exactly
\* Len(text) ticks and onComplete fires exactly once: when no interval is
\* left to fire, display is the whole target, Len(text) ticks have revealed
\* a character and there has been one completion.
C1_CompletesOnce ==
    (nAdv = 1 /\ ~skipped /\ text # <<>> /\ Len(text) <= MAX_INSTANT_CHARS /\ timers = {})
        => (displayText = text /\ ticks = Len(text) /\ completions = 1)

\* C2: after a target that continues the previous one (both typed character
\* by character, none longer than MAX_INSTANT_CHARS), the tick keeps
\* advancing toward the new target: when no interval is left to fire (and
\* skip was never used), display is the latest target; and no tick leaves
\* the cursor at 0.
C2_ExtensionReachesTarget ==
    /\ (Continued /\ Len(text) <= MAX_INSTANT_CHARS /\ ~skipped /\ timers = {})
        => displayText = text
    /\ lastOp = "tick" => currentIndex > 0

\* C3: in every state 0 <= cursor <= target.length and display is
\* target[0:cursor].
C3_RevealInvariant ==
    /\ currentIndex \in 0..Len(text)
    /\ displayText = SubSeq(text, 1, currentIndex)

\* C4: advance(t) with t not starting with the current display leaves
\* display equal to a prefix of t, the empty string or the first
\* MAX_INSTANT_CHARS characters of a longer t, with cursor = Len(display).
C4_RestartCorrect ==
    (lastOp = "advance" /\ ~StartsWith(text, pre.displayText))
        => /\ IsPrefix(displayText, text)
           /\ \/ displayText = <<>>
              \/ Len(text) > MAX_INSTANT_CHARS
                   /\ displayText = SubSeq(text, 1, MAX_INSTANT_CHARS)
           /\ currentIndex = Len(displayText)

C7_Skip ==
    lastOp = "skip"
        => /\ timers = {} /\ intervalRef = 0
           /\ displayText = text
           /\ currentIndex = Len(text)
           /\ ~isTyping
           /\ completions = pre.completions + 1

\* skip() was called while an interval was live and nothing was shown yet
C7_Witness ==
    /\ lastOp = "skip" /\ pre.timers # {} /\ pre.isTyping
    /\ text # <<>> /\ pre.currentIndex < Len(text)

----------------------------------------------------------------------------
(* Properties of stream ingestion, checked under SpecStream *)

Terminated(s) == s # <<>> /\ s[Len(s)] = NL

\* The newline-terminated lines of a body.
TerminatedLines(s) == LET ls == Split(s) IN SubSeq(ls, 1, Len(ls) - 1)

WellFormed(line) == StartsWith(line, DataPrefix) /\ JSONParse(SliceFrom(line, 6)).ok

\* The decoded well-formed data frames of a body, in line order.
FramesOf(s) ==
    LET good == SelectSeq(TerminatedLines(s), WellFormed)
    IN  [i \in 1..Len(good) |-> JSONParse(SliceFrom(good[i], 6))]

IsTerminal(f) == f.status = "complete"

\* The frames up to and including the first terminal one.
UpToTerminal(fs) ==
    IF \E i \in 1..Len(fs) : IsTerminal(fs[i])
    THEN SubSeq(fs, 1, CHOOSE i \in 1..Len(fs) :
                          IsTerminal(fs[i]) /\ \A j \in 1..(i - 1) : ~IsTerminal(fs[j]))
    ELSE fs

\* A body of well-formed data frames only, the last one terminal, the others not.
EndsWithTerminal(s) ==
    LET ls == TerminatedLines(s)
        fs == FramesOf(s)
    IN  /\ Terminated(s)
        /\ \A i \in 1..Len(ls) : WellFormed(ls[i])
        /\ IsTerminal(fs[Len(fs)])
        /\ \A i \in 1..(Len(fs) - 1) : ~IsTerminal(fs[i])

\* C8 as stated: for a body of data frames ending with the terminal frame,
\* onMessage is called for the frames before the terminal one, in order,
\* then onComplete exactly once, and never onError.
C8_TerminalFrame ==
    (pc = "done" /\ EndsWithTerminal(stream))
        => /\ messages = SubSeq(FramesOf(stream), 1, Len(FramesOf(stream)) - 1)
           /\ nComplete = 1 /\ lateMessages = 0 /\ nError = 0

\* C8 amended: onMessage is called for every frame, the terminal one
\* included, in order, then onComplete exactly once, and never onError.
C8_TerminalFrameDelivered ==
    (pc = "done" /\ EndsWithTerminal(stream))
        => /\ messages = FramesOf(stream)
           /\ nComplete = 1 /\ lateMessages = 0 /\ nError = 0

\* the body "data: 1", "data: 2" (or such), terminal frame has been consumed
C8_Witness ==
    /\ pc = "done" /\ EndsWithTerminal(stream)
    /\ Len(FramesOf(stream)) = 3 /\ Len(messages) = 3

\* C9 as stated: however a newline-terminated body is cut into chunks, the
\* onMessage deliveries are its well-formed data frames, each once, in line
\* order.
C9_ChunkIndependent ==
    (pc = "done" /\ Terminated(stream)) => messages = FramesOf(stream)

\* C9 amended: the deliveries are the well-formed data frames up to and
\* including the first terminal frame, each once, in line order.
C9_ChunkIndependentUpToTerminal ==
    (pc = "done" /\ Terminated(stream)) => messages = UpToTerminal(FramesOf(stream))

\* a body cut in the middle of a line, with two or more frames delivered
C9_Witness ==
    /\ pc = "done" /\ Terminated(stream) /\ midLine
    /\ Len(messages) >= 2 /\ messages[1] # messages[2]

\* C10: onComplete is called at most once; once a terminal message has been
\* decoded, onComplete has been called, reading has stopped and the terminal
\* message is the last one delivered; at end of input onComplete has been
\* called once.
C10_CompleteOnce ==
    /\ nComplete <= 1
    /\ lateMessages = 0
    /\ sawComplete => /\ pc = "done" /\ nComplete = 1
                      /\ messages # <<>> /\ IsTerminal(messages[Len(messages)])
    /\ pc = "done" => nComplete = 1
    /\ (pc = "done" /\ ~sawComplete) => pos = Len(stream)
    /\ pc # "done" => nComplete = 0

\* the terminal frame and a later well-formed frame arrived in the body, all of it read
C10_Witness ==
    /\ pc = "done" /\ sawComplete /\ pos = Len(stream) /\ Terminated(stream)
    /\ Len(messages) < Len(FramesOf(stream))

\* C11: a data line whose payload is not valid JSON causes no callback and
\* does not end the stream: in every state the deliveries are the well-formed
\* frames of the lines read so far (up to the first terminal one), in order;
\* reading only ends early on a terminal frame; and onError is called only
\* after a transport failure.
C11_DecodeFailureLocal ==
    /\ messages = UpToTerminal(FramesOf(SubSeq(stream, 1, pos)))
    /\ (pc = "done" /\ ~sawComplete) => pos = Len(stream)
    /\ failure = "none" => (nError = 0 /\ pc # "failed")
    /\ nDecodeFail > 0 => (nComplete > 0 => (sawComplete \/ pos = Len(stream)))

\* the first line was malformed, a later frame was delivered, the stream ended at EOF
C11_Witness ==
    /\ pc = "done" /\ ~sawComplete /\ nDecodeFail >= 1 /\ messages # <<>>
    /\ TerminatedLines(stream) # <<>>
    /\ TerminatedLines(stream)[1] = LineMalformed

\* A line that starts with "data: " and has something but white space after it.
IsFrameLine(line) ==
    /\ Len(line) > 6
    /\ SubSeq(line, 1, 6) = <<"d", "a", "t", "a", ":", " ">>
    /\ \E i \in 7..Len(line) : line[i] \notin Whitespace

\* C32: only the lines that start with "data: " and have a non-blank rest are
\* processed as frames: of the lines read so far (up to the first terminal
\* frame) each such line gave one onMessage call or one decode failure, in
\* line order, and every other line gave nothing and left the deliveries of
\* the frames around it as they are.
C32_FrameRecognition ==
    LET ls == TerminatedLines(SubSeq(stream, 1, pos))
        payload(i) == JSONParse(SubSeq(ls[i], 7, Len(ls[i])))
        terminal == {i \in 1..Len(ls) : IsFrameLine(ls[i]) /\ payload(i).ok
                                        /\ payload(i).status = "complete"}
        last == IF terminal = {} THEN Len(ls)
                ELSE CHOOSE i \in terminal : \A j \in terminal : i <= j
        frames == {i \in 1..last : IsFrameLine(ls[i])}
        decoded == {i \in frames : payload(i).ok}
        nth(k) == CHOOSE i \in decoded : Cardinality({j \in decoded : j < i}) = k - 1
    IN  /\ Len(messages) = Cardinality(decoded)
        /\ nDecodeFail = Cardinality(frames \ decoded)
        /\ \A k \in 1..Len(messages) : messages[k] = payload(nth(k))

\* "data:1" without the space stood between two frames, and both were delivered.
C32_Witness ==
    /\ pc = "done"
    /\ TerminatedLines(stream) = <<LineMsg1, LineNoSpace, LineMsg2>>
    /\ Len(messages) = 2
    /\ nDecodeFail = 0

\* C36: a frame is delivered only after its newline has been received; at the
\* end of the input a fragment without a newline that is still in the buffer
\* is not delivered, also when it is a whole frame or the terminal frame, and
\* onComplete is still called once.
C36_UnterminatedFragment ==
    LET received == SubSeq(stream, 1, pos)
        newlines == Cardinality({i \in 1..pos : stream[i] = NL})
        pieces == Split(stream)
    IN  /\ Len(messages) + nDecodeFail <= newlines
        /\ (pc = "done" /\ ~sawComplete) =>
               /\ buffer = pieces[Len(pieces)]
               /\ Len(messages) + nDecodeFail <= Len(pieces) - 1
               /\ messages = FramesOf(stream)
               /\ nComplete = 1

\* The input ended with a whole frame that had no newline after it.
C36_Witness ==
    /\ pc = "done"
    /\ ~sawComplete
    /\ buffer \in {LineMsg1, LineMsg2, LineComplete}
    /\ nComplete = 1

\* C12: from cancel() on, no step of the stream calls onError, onComplete or
\* onMessage, whether the abort lands on the pending fetch or on a pending
\* read.
C12_CancelSilent ==
    [][aborted' => (nError' = nError /\ nComplete' = nComplete /\ messages' = messages)]_vars

\* the abort landed on a pending read, after a frame had been delivered
C12_Witness == pc = "aborted" /\ messages # <<>> /\ nError = 0 /\ nComplete = 0

\* C13: every non-abort failure (rejected request, non-2xx status, response
\* without a body, read error) calls onError exactly once.
C13_ErrorOnce == failure # "none" => nError = 1

\* C14: onError and onComplete are never both called; after onError there is
\* no onComplete and no further onMessage; after onComplete there is no
\* onError.
C14_ErrorXorComplete ==
    /\ [](~(nError > 0 /\ nComplete > 0))
    /\ [][nError > 0 => (nComplete' = nComplete /\ messages' = messages)]_vars
    /\ [][nComplete > 0 => nError' = nError]_vars

\* a read failed after a frame had been delivered
C14_Witness == pc = "failed" /\ failure = "read" /\ nError = 1 /\ messages # <<>>

----------------------------------------------------------------------------
(* Properties of the section parser, checked under SpecParse *)

AnalysisMarkers == {MarkerAnalysis, MarkerAnalisis}
TableMarkers == {MarkerDataTable, MarkerTablaDeDatos, MarkerGraphData}

\* The sections' lines joined back with newlines, in order.
JoinedBack(secs) == Join([i \in 1..Len(secs) |-> secs[i].content])

\* The line the loop handles next, and a step of the loop.
NextLine == textLines[lineNo + 1]
Stepping == parsePc = "loop" /\ lineNo < Len(textLines) /\ lineNo' = lineNo + 1

\* The current section is pushed as it is, if it has any line.
Flushed ==
    IF currentSection.content # <<>>
    THEN sections' = Append(sections, [type |-> currentSection.type,
                                       content |-> Join(currentSection.content)])
    ELSE sections' = sections

\* Line l goes into the current section, which stays open.
Appended(l) ==
    /\ sections' = sections
    /\ currentSection' = [type |-> currentSection.type,
                          content |-> Append(currentSection.content, l)]

\* Line l closes the current section as its last line; a fresh text section follows.
ClosedBy(l) ==
    /\ sections' = Append(sections, [type |-> currentSection.type,
                                     content |-> Join(Append(currentSection.content, l))])
    /\ currentSection' = [type |-> "text", content |-> <<>>]
    /\ ~inTable'

\* C15: for every text, the lines of the sections returned by the parser,
\* joined in order with newlines, give back exactly the text, and parsing the
\* rejoined text yields the same sequence of sections.
C15_LosslessIdempotent ==
    parsePc = "returned" =>
        /\ sections = parseContentSections(parseText, displayFormat)
        /\ JoinedBack(sections) = parseText
        /\ parseContentSections(JoinedBack(sections), displayFormat) = sections

\* A table marker, a table row, then a blank line: three sections, the last
\* one holding the blank line.
C15_Witness ==
    /\ parsePc = "returned"
    /\ Len(sections) = 3
    /\ sections[2].type = "table"
    /\ sections[3] = [type |-> "analysis", content |-> <<>>]

\* C16: inside a table-kind section, a line that has no box-drawing glyph, no
\* "rows" and is not a marker closes the table section and opens an analysis
\* section whose first line is that line; it is not appended to the table.
C16_NonTableLineClosesTable ==
    [][(/\ Stepping
        /\ inTable
        /\ currentSection.type \in {"table", "graph-table"}
        /\ ~HasGlyph(NextLine)
        /\ ~Includes(NextLine, Rows)
        /\ NextLine \notin AnalysisMarkers \cup TableMarkers)
       => (/\ Flushed
           /\ currentSection' = [type |-> "analysis", content |-> <<NextLine>>])]_vars

\* C17 as stated: inside a table, every line containing "rows" closes the
\* section as its last line and a fresh text section follows; outside a table
\* a line with a glyph is plain content of the current section.
C17_RowsCloses ==
    /\ [][(Stepping /\ inTable /\ Includes(NextLine, Rows)) => ClosedBy(NextLine)]_vars
    /\ [][(Stepping /\ ~inTable /\ HasGlyph(NextLine))
          => (Appended(NextLine) /\ ~inTable')]_vars

\* C17 amended: inside a table, every line containing "rows" and no
\* box-drawing glyph closes the section as its last line and a fresh text
\* section follows; a line with a glyph is table content even if it contains
\* "rows". Outside a table a line with a glyph is plain content.
C17_RowsWithoutGlyphCloses ==
    /\ [][(Stepping /\ inTable /\ Includes(NextLine, Rows) /\ ~HasGlyph(NextLine))
          => ClosedBy(NextLine)]_vars
    /\ [][(Stepping /\ inTable /\ HasGlyph(NextLine)) => inTable']_vars
    /\ [][(Stepping /\ ~inTable /\ HasGlyph(NextLine))
          => (Appended(NextLine) /\ ~inTable')]_vars

\* A table marker, a "rows" line that closed the header section, then a line
\* with a glyph that went into the fresh text section.
C17_Witness ==
    /\ lineNo = 3
    /\ textLines[1] \in TableMarkers
    /\ textLines[2] = RowsLine
    /\ HasGlyph(textLines[3])
    /\ lastBranch = "else"
    /\ Len(sections) = 1
    /\ currentSection = [type |-> "text", content |-> <<textLines[3]>>]

\* C18: a line that is exactly an analysis marker (two variants) or a table
\* marker (three variants) pushes the previous section if it has lines and
\* starts a section, of analysis kind or of a table-header kind, whose first
\* line is the marker; a line that contains a marker without being one starts
\* no such section.
C18_MarkerRecognition ==
    [][Stepping =>
        /\ NextLine \in AnalysisMarkers =>
              (Flushed /\ currentSection' = [type |-> "analysis", content |-> <<NextLine>>])
        /\ NextLine \in TableMarkers =>
              /\ Flushed
              /\ currentSection'.type =
                    (IF displayFormat = "neo4j_graph" THEN "graph-table-header"
                                                      ELSE "table-header")
              /\ currentSection'.content = <<NextLine>>
        /\ (/\ NextLine \notin AnalysisMarkers \cup TableMarkers
            /\ \E m \in AnalysisMarkers \cup TableMarkers : Includes(NextLine, m))
           => (/\ lastBranch' \notin {"analysis-marker", "table-marker"}
               /\ ~(/\ currentSection'.content = <<NextLine>>
                    /\ currentSection'.type \in {"analysis", "table-header",
                                                 "graph-table-header"}))]_vars

\* A line that only contains a marker stayed in the text section, and the
\* marker after it pushed that section and started a header section.
C18_Witness ==
    /\ lineNo = 2
    /\ textLines[1] = NearAnalysisLine
    /\ lastBranch = "table-marker"
    /\ sections = <<[type |-> "text", content |-> NearAnalysisLine]>>
    /\ currentSection = [type |-> "graph-table-header", content |-> <<textLines[2]>>]

----------------------------------------------------------------------------
(* Properties of the composer and of the timer, checked under SpecReveal *)

StructuralMarkers == {MarkerAnalysis, MarkerAnalisis, MarkerDataTable,
                      MarkerTablaDeDatos, MarkerGraphData}

\* C19: whenever the content contains one of the structural section markers,
\* the component renders the whole content at once: the displayed text is the
\* content and the typing state is false, whatever the interval has done.
C19_MarkersBypassAnimator ==
    (mounted /\ \E m \in StructuralMarkers : Includes(text, m))
        => (Rendered.displayText = text /\ ~Rendered.isTyping)

\* C20: at most one interval is live; a live interval is the tracked one and
\* the effect has returned the cleanup that clears it; none is live after an
\* advance to the empty text, after a completion, after skip or after the
\* unmount, and no interval callback runs after the unmount.
C20_TimerHygiene ==
    /\ Cardinality(timers) <= 1
    /\ \A t \in timers : t.id = intervalRef /\ cleanup
    /\ text = <<>> => timers = {}
    /\ completions > pre.completions => timers = {}
    /\ lastOp = "skip" => timers = {}
    /\ ~mounted => (timers = {} /\ intervalRef = 0 /\ lastOp = "unmount")

\* The component unmounted while an interval was live, and the interval is gone.
C20_Witness ==
    /\ ~mounted
    /\ pre.timers # {}
    /\ pre.intervalRef # 0
    /\ timers = {}

\* C29: an advance that takes the restart branch with a target longer than
\* MAX_INSTANT_CHARS leaves display at the first MAX_INSTANT_CHARS characters
\* and cursor at MAX_INSTANT_CHARS, with a tick live that types the rest; with
\* a target of at most MAX_INSTANT_CHARS characters it leaves display empty
\* and cursor 0; in both cases the only live tick is one started for the new
\* target.
C29_BulkRevealOnRestart ==
    (lastOp = "advance" /\ starts >= 1) =>
        /\ Len(text) > MAX_INSTANT_CHARS =>
               /\ displayText = Substring0(text, MAX_INSTANT_CHARS)
               /\ currentIndex = MAX_INSTANT_CHARS
        /\ Len(text) <= MAX_INSTANT_CHARS =>
               /\ displayText = <<>>
               /\ currentIndex = 0
        /\ intervalRef # 0
        /\ timers = {[id |-> intervalRef, text |-> text]}

\* C34: whenever the hook reports typing, an interval is live that will
\* reveal the next character or complete.
C34_NoStuckTyping ==
    (mounted /\ isTyping) => (intervalRef # 0 /\ \E t \in timers : t.id = intervalRef)

\* C35: the displayed text is always as long as the index, so the lag
\* displayText.length - currentIndex is 0 and never above TYPING_LAG_TOLERANCE.
C35_LagIsZero ==
    /\ Len(displayText) = currentIndex
    /\ Len(pre.displayText) = pre.currentIndex
    /\ Len(displayText) - currentIndex <= TYPING_LAG_TOLERANCE

\* A restart has reset a text that was partly shown.
C35_Witness ==
    /\ lastOp = "advance"
    /\ starts >= 1
    /\ pre.displayText # <<>>
    /\ pre.currentIndex > 0
    /\ displayText = <<>>
    /\ currentIndex = 0

====
